---------------------------- MODULE Spec2Model ----------------------------
(***************************************************************************)
(* Model of the shipment query service (src/app.py): the value             *)
(* normalizers, the statement builders of the HTTP handlers and a small    *)
(* relational engine that executes the statements they hand to the         *)
(* database; the custom and scheduled reports; and, step by step, the      *)
(* handlers whose requests meet on the temporary directory, on the         *)
(* connections or on the tables when threads serve them side by side.      *)
(*                                                                         *)
(* Text is a sequence of one-character strings, so that the conversions    *)
(* of the code (regexp_replace, substring, replace, strftime) are computed *)
(* character by character.  Python's None and SQL's NULL are the one-      *)
(* element sequences None and NULL, which no text equals.                  *)
(***************************************************************************)
EXTENDS Integers, Sequences, FiniteSets, TLC

\* table: the rows of shipments; now: the date of the server's clock;
\* req, stmts, resp: the request in progress, the statements it handed to the
\* database and its response;
\* files: the files of the temporary directory, in the order of their writing;
\* reports: the rows of custom_reports; schedules: the rows of
\* scheduled_reports;
\* calls: the requests the threads of the server are serving side by side,
\* each with its position in its handler
VARIABLES table, now, req, stmts, resp, files, reports, schedules, calls

vars == <<table, now, req, stmts, resp, files, reports, schedules, calls>>

-----------------------------------------------------------------------------
(* Bounds of the model *)

\* largest number of rows of the shipments table
MaxRows == 2

\* largest page number and page size a request asks for
MaxPage == 2

\* longest weight / COD text handed to the extraction expression
MaxLen == 3

\* largest number of runs of rows of a large table
MaxRuns == 2

\* largest number of custom reports and of executions of one report
MaxReports == 1
MaxExecutions == 1

\* largest number of values uuid4 gives to the exports
MaxExports == 2

\* largest number of rows of scheduled_reports
MaxSchedules == 2

-----------------------------------------------------------------------------
(* Text *)

None == <<"None">>
NULL == <<"NULL">>

Digits == <<"0", "1", "2", "3", "4", "5", "6", "7", "8", "9">>

\* the symbols of the model in the order of text comparison (ASCII for the
\* characters, a word where its first character puts it)
Alphabet == <<" ", "-", ".", "0", "1", "2", "3", "4", "5", "6", "7", "8",
              "9", "A", "D", "F", "J", "K", "M", "N", "O", "S", "T", "W", "Y",
              "a", "acme", "b", "bolt", "c", "d", "e", "g", "h", "k", "l", "n",
              "o", "p", "r", "t", "u", "v", "w", "x", "y">>

Ord(c) == CHOOSE i \in 1..Len(Alphabet) : Alphabet[i] = c

IsDigit(c) == \E i \in 1..10 : Digits[i] = c

DigitVal(c) == (CHOOSE i \in 1..10 : Digits[i] = c) - 1

DigitChar(n) == Digits[n + 1]

\* Python truthiness of an optional string: None and "" are false
Truthy(s) == s # None /\ s # <<>>

\* str.lower() on the characters of the model
LowerChar(c) ==
    CASE c = "A" -> "a" [] c = "C" -> "c" [] c = "D" -> "d" [] c = "F" -> "f"
      [] c = "J" -> "j" [] c = "K" -> "k" [] c = "M" -> "m" [] c = "N" -> "n"
      [] c = "O" -> "o" [] c = "S" -> "s" [] c = "T" -> "t" [] c = "V" -> "v"
      [] c = "W" -> "w" [] c = "Y" -> "y"
      [] OTHER -> c

Lower(s) == [i \in 1..Len(s) |-> LowerChar(s[i])]

\* s < t and s <= t in the order of the characters (text comparison)
RECURSIVE LexLess(_, _)
LexLess(s, t) ==
    IF t = <<>> THEN FALSE
    ELSE IF s = <<>> THEN TRUE
    ELSE IF s[1] # t[1] THEN Ord(s[1]) < Ord(t[1])
    ELSE LexLess(Tail(s), Tail(t))

LexLeq(s, t) == s = t \/ LexLess(s, t)

\* the number written by a sequence of digits
RECURSIVE DigitsVal(_)
DigitsVal(s) ==
    IF s = <<>> THEN 0
    ELSE 10 * DigitsVal(SubSeq(s, 1, Len(s) - 1)) + DigitVal(s[Len(s)])

AllDigits(s) == \A i \in 1..Len(s) : IsDigit(s[i])

\* n written with exactly w digits (w >= the digits of n)
RECURSIVE Pad(_, _)
Pad(n, w) == IF w = 0 THEN <<>> ELSE Pad(n \div 10, w - 1) \o <<DigitChar(n % 10)>>

\* n written with as many digits as it needs
RECURSIVE Dec(_)
Dec(n) == IF n < 10 THEN <<DigitChar(n)>> ELSE Dec(n \div 10) \o <<DigitChar(n % 10)>>


-----------------------------------------------------------------------------
(* Calendar: datetime and timedelta of Python's standard library, as far   *)
(* as parse_date_filter uses them.  A date is [y, m, d]; only the date     *)
(* part of a datetime reaches strftime('%Y%m%d').                          *)

MINYEAR == 1
MAXYEAR == 9999

Date(y, m, d) == [y |-> y, m |-> m, d |-> d]

IsLeap(y) == (y % 4 = 0 /\ y % 100 # 0) \/ y % 400 = 0

DaysInMonth(y, m) ==
    IF m = 2 THEN (IF IsLeap(y) THEN 29 ELSE 28)
    ELSE IF m \in {4, 6, 9, 11} THEN 30 ELSE 31

\* days from 0000-03-01 to the date (proleptic Gregorian)
DaysFromCivil(dt) ==
    LET y   == IF dt.m <= 2 THEN dt.y - 1 ELSE dt.y
        era == y \div 400
        yoe == y - era * 400
        mp  == IF dt.m > 2 THEN dt.m - 3 ELSE dt.m + 9
        doy == (153 * mp + 2) \div 5 + dt.d - 1
        doe == yoe * 365 + yoe \div 4 - yoe \div 100 + doy
    IN  era * 146097 + doe

CivilFromDays(z) ==
    LET era == z \div 146097
        doe == z - era * 146097
        yoe == (doe - doe \div 1460 + doe \div 36524 - doe \div 146096) \div 365
        doy == doe - (365 * yoe + yoe \div 4 - yoe \div 100)
        mp  == (5 * doy + 2) \div 153
        d   == doy - (153 * mp + 2) \div 5 + 1
        m   == IF mp < 10 THEN mp + 3 ELSE mp - 9
        y   == yoe + era * 400
    IN  Date(IF m <= 2 THEN y + 1 ELSE y, m, d)

MinDay == DaysFromCivil(Date(MINYEAR, 1, 1))
MaxDay == DaysFromCivil(Date(MAXYEAR, 12, 31))

\* date + timedelta(days=n) raises OverflowError outside MINYEAR..MAXYEAR
Overflows(dt, n) ==
    DaysFromCivil(dt) + n < MinDay \/ DaysFromCivil(dt) + n > MaxDay

AddDays(dt, n) == CivilFromDays(DaysFromCivil(dt) + n)

\* strftime('%Y%m%d'); the dates of the model have four-digit years, for
\* which every C library pads alike
Strftime(dt) == Pad(dt.y, 4) \o Pad(dt.m, 2) \o Pad(dt.d, 2)

\* dateutil's parser.parse on the literals of the model: "YYYY-MM-DD" with a
\* date of the calendar parses, anything else raises
IsoShaped(s) ==
    /\ Len(s) = 10
    /\ s[5] = "-" /\ s[8] = "-"
    /\ AllDigits(SubSeq(s, 1, 4)) /\ AllDigits(SubSeq(s, 6, 7))
    /\ AllDigits(SubSeq(s, 9, 10))

IsoDate(s) ==
    Date(DigitsVal(SubSeq(s, 1, 4)), DigitsVal(SubSeq(s, 6, 7)),
         DigitsVal(SubSeq(s, 9, 10)))

Parses(s) ==
    /\ IsoShaped(s)
    /\ IsoDate(s).y \in MINYEAR..MAXYEAR
    /\ IsoDate(s).m \in 1..12
    /\ IsoDate(s).d \in 1..DaysInMonth(IsoDate(s).y, IsoDate(s).m)

Today == <<"t", "o", "d", "a", "y">>
Week  == <<"w", "e", "e", "k">>
Month == <<"m", "o", "n", "t", "h">>
Year  == <<"y", "e", "a", "r">>
Total == <<"t", "o", "t", "a", "l">>

\* days a named token reaches back from now
TokenDays(tok) ==
    CASE tok = Today -> 0 [] tok = Week -> 7 [] tok = Month -> 30
      [] tok = Year -> 365

\* the window of a literal date: end_date = start_date + timedelta(days=1)
LiteralWindow == 1

\* parse_date_filter at the time `today`: <<start, end>> or <<None, None>>
parse_date_filter(date_str, today) ==
    IF ~Truthy(date_str) THEN <<None, None>>
    ELSE IF Lower(date_str) \in {Today, Week, Month, Year} THEN
        LET back == TokenDays(Lower(date_str))
        IN  IF Overflows(today, -back) THEN <<None, None>>
            ELSE <<Strftime(AddDays(today, -back)), Strftime(today)>>
    ELSE IF Lower(date_str) = Total THEN <<None, None>>
    ELSE IF ~Parses(date_str) THEN <<None, None>>
    ELSE LET start == IsoDate(date_str)
         IN  IF Overflows(start, LiteralWindow) THEN <<None, None>>
             ELSE <<Strftime(start), Strftime(AddDays(start, LiteralWindow))>>

\* normalize_iso_to_yyyymmdd: '-' removed, None for a missing string
normalize_iso_to_yyyymmdd(date_str) ==
    IF ~Truthy(date_str) THEN None
    ELSE SelectSeq(date_str, LAMBDA c : c # "-")

-----------------------------------------------------------------------------
(* SQL expressions over one column value (text or NULL) *)

MonthNames == <<
    <<"J", "a", "n">>, <<"F", "e", "b">>, <<"M", "a", "r">>, <<"A", "p", "r">>,
    <<"M", "a", "y">>, <<"J", "u", "n">>, <<"J", "u", "l">>, <<"A", "u", "g">>,
    <<"S", "e", "p">>, <<"O", "c", "t">>, <<"N", "o", "v">>, <<"D", "e", "c">> >>

\* shipment_creation_date LIKE '__-___-__'
LikeLegacy(v) == v # NULL /\ Len(v) = 9 /\ v[3] = "-" /\ v[7] = "-"

\* CASE substring(v, 4, 3) WHEN 'Jan' THEN '01' ... END: NULL without a match
MonthCase(mon) ==
    IF \E i \in 1..12 : MonthNames[i] = mon
    THEN Pad(CHOOSE i \in 1..12 : MonthNames[i] = mon, 2)
    ELSE NULL

\* a || b: NULL if either side is
Concat(a, b) == IF a = NULL \/ b = NULL THEN NULL ELSE a \o b

\* the CASE expression returned by get_date_filter_sql, on one column value
DateSqlYearLast(v) ==
    IF LikeLegacy(v)
    THEN Concat(Concat(SubSeq(v, 1, 2), MonthCase(SubSeq(v, 4, 6))),
                <<"2", "0">> \o SubSeq(v, 8, 9))
    ELSE v

DateSql(v) ==
    IF LikeLegacy(v)
    THEN Concat(Concat(<<"2", "0">> \o SubSeq(v, 8, 9),
                       MonthCase(SubSeq(v, 4, 6))),
                SubSeq(v, 1, 2))
    ELSE v

\* A numeric is n / 10^s; st is "ok", "null" (SQL NULL) or "error" (the cast
\* raises and the statement fails)
Num(n, s)  == [n |-> n, s |-> s, st |-> "ok"]
NoNum(st)  == [n |-> 0, s |-> 0, st |-> st]
NumNull    == NoNum("null")
NumError   == NoNum("error")

RECURSIVE Pow10(_)
Pow10(k) == IF k = 0 THEN 1 ELSE 10 * Pow10(k - 1)

NumLeq(a, b) == a.n * Pow10(b.s) <= b.n * Pow10(a.s)
NumEq(a, b)  == a.n * Pow10(b.s) = b.n * Pow10(a.s)
NumLess(a, b) == a.n * Pow10(b.s) < b.n * Pow10(a.s)

\* TRIM(s)
RECURSIVE LTrim(_)
LTrim(s) == IF s # <<>> /\ s[1] = " " THEN LTrim(Tail(s)) ELSE s

RECURSIVE RTrim(_)
RTrim(s) ==
    IF s # <<>> /\ s[Len(s)] = " " THEN RTrim(SubSeq(s, 1, Len(s) - 1)) ELSE s

Trim(s) == RTrim(LTrim(s))

\* REGEXP_REPLACE(s, '[^0-9.]', '', 'g')
StripNonDigits(s) == SelectSeq(s, IsDigit)
StripNonNumeric(s) == SelectSeq(s, LAMBDA c : IsDigit(c) \/ c = ".")

\* REGEXP_REPLACE(s, '^[.]', '0.', 'g')
RepairLeadingPoint(s) ==
    IF s # <<>> /\ s[1] = "." THEN <<"0", ".">> \o Tail(s) ELSE s

\* REGEXP_REPLACE(s, '[.]$', '', 'g')
StripTrailingPoint(s) ==
    IF s # <<>> /\ s[Len(s)] = "." THEN SubSeq(s, 1, Len(s) - 1) ELSE s

PointCount(s) == Cardinality({i \in 1..Len(s) : s[i] = "."})
DigitCount(s) == Cardinality({i \in 1..Len(s) : IsDigit(s[i])})

\* CAST(s AS NUMERIC) of a text of digits and points, and float(s) of such a
\* text: digits with at most one point and at least one digit, else an error
CastNumeric(s) ==
    IF PointCount(s) > 1 \/ DigitCount(s) = 0 THEN NumError
    ELSE LET p == IF PointCount(s) = 0 THEN Len(s) + 1
                  ELSE CHOOSE i \in 1..Len(s) : s[i] = "."
         IN  Num(DigitsVal(SelectSeq(s, IsDigit)), Len(s) - p + (IF p > Len(s) THEN 1 ELSE 0))

\* the CASE expression of get_weight_parsing_sql / get_cod_parsing_sql
ParsingSql(v) ==
    IF v = NULL \/ v = <<>> THEN NumNull
    ELSE CastNumeric(StripTrailingPoint(RepairLeadingPoint(
             StripNonNumeric(Trim(v)))))

get_weight_parsing_sql(v) == ParsingSql(v)

get_cod_parsing_sql(v) == ParsingSql(v)

\* float(s) on a text of the model: surrounding blanks are ignored; raises
\* ValueError (st = "error") unless digits with at most one point remain
Float(s) ==
    IF \E i \in 1..Len(Trim(s)) : ~(IsDigit(Trim(s)[i]) \/ Trim(s)[i] = ".")
    THEN NumError
    ELSE CastNumeric(Trim(s))

-----------------------------------------------------------------------------
(* The shipments table.  A row records the columns in which the rows of    *)
(* the model differ; every other column holds the same text in every row.  *)
(* A text value is a sequence of symbols (characters, or whole words for   *)
(* the columns whose characters no code looks at).                         *)

Columns == {"id", "number_shipment", "shipment_reference_number",
            "country_code", "number_of_shipment_boxes",
            "shipment_description", "pdf_filename", "shipment_creation_date",
            "processing_date", "shipment_weight", "cod", "shipper_name",
            "shipper_city", "shipper_phone", "shipper_address",
            "consignee_name", "consignee_city", "consignee_phone",
            "consignee_address", "search_text"}

IntColumns == {"id", "number_of_shipment_boxes"}

Jan04 == <<"0", "4", "-", "J", "a", "n", "-", "2", "4">>
Jan05 == <<"0", "5", "-", "J", "a", "n", "-", "2", "4">>
Jan06 == <<"0", "6", "-", "J", "a", "n", "-", "2", "4">>

\* the kinds of row of the model: creation date, weight, COD, shipper name
RowKinds == {
    [date |-> Jan05, weight |-> <<"3", " ", "K", "g">>, cod |-> <<"0">>,
     name |-> <<"acme">>],
    [date |-> Jan06, weight |-> <<"7", ".", "2", " ", "K", "g">>,
     cod |-> <<"5", "0">>, name |-> <<"bolt">>],
    [date |-> Jan04, weight |-> NULL, cod |-> NULL, name |-> <<"acme">>],
    [date |-> Jan05, weight |-> <<"K", "g">>, cod |-> <<>>,
     name |-> <<"bolt">>] }

Row(id, k) ==
    [date |-> k.date, weight |-> k.weight, cod |-> k.cod, name |-> k.name,
     id |-> id]

\* the value of a column of a row
Col(row, c) ==
    CASE c = "id" -> row.id
      [] c = "number_of_shipment_boxes" -> 1
      [] c = "shipment_creation_date" -> row.date
      [] c = "shipment_weight" -> row.weight
      [] c = "cod" -> row.cod
      [] c = "shipper_name" -> row.name
      [] c = "search_text" -> row.name
      [] OTHER -> <<"x">>

\* tables of at most MaxRows rows with the ids 1, 2, ... in insertion order
Tables ==
    UNION {{[i \in 1..n |-> Row(i, ks[i])] : ks \in [1..n -> RowKinds]} :
           n \in 0..MaxRows}

-----------------------------------------------------------------------------
(* Statements.  The text of a statement is made of tokens: src says where  *)
(* the token's text comes from ("code" for the literals of app.py, else    *)
(* the request parameter formatted into the text) and v is the text.       *)

Code(w) == [v |-> <<w>>, src |-> "code"]
Interp(field, text) == [v |-> text, src |-> field]

\* a placeholder: '?' is rewritten to '%s' by convert_sqlite_to_postgresql
Placeholder == Code("%s")

Pred(lhs, op, rhs) == [lhs |-> lhs, op |-> op, rhs |-> rhs]

\* bound parameters
PText(s) == [n |-> 0, s |-> s, t |-> "text", sc |-> 0]
PInt(n)  == [n |-> n, s |-> <<>>, t |-> "int", sc |-> 0]
PNum(x)  == [n |-> x.n, s |-> <<>>, t |-> "num", sc |-> x.s]

\* the working set of a statement: all rows ("all"), the rows with
\* id > MAX(id) - n ("id_window"), the first n rows by descending id of those
\* the WHERE clause keeps ("filter_limit"), or the first n rows by descending
\* id, filtered afterwards ("limit_filter")
Sample(mode, n) == [n |-> n, mode |-> mode]
NoSample == Sample("all", 0)

\* SELECT COUNT(*) as total FROM shipments <where>
CountStmt(where, params) ==
    [where |-> where, params |-> params, kind |-> "count", sample |-> NoSample,
     order |-> <<>>, paged |-> FALSE, limited |-> FALSE]

\* SELECT * FROM shipments <where> ORDER BY <order> DESC LIMIT %s OFFSET %s
DataStmt(where, order, params) ==
    [where |-> where, params |-> params, kind |-> "select",
     sample |-> NoSample, order |-> <<order>>, paged |-> TRUE, limited |-> FALSE]

\* WITH <sample> AS (...) SELECT <aggregate> ...; `limited` ends it LIMIT %s
AggStmt(kind, sample, where, limited, params) ==
    [where |-> where, params |-> params, kind |-> kind, sample |-> sample,
     order |-> <<>>, paged |-> FALSE, limited |-> limited]

\* the tokens of the text of a statement, in order
RECURSIVE WhereTokens(_)
WhereTokens(w) ==
    IF w = <<>> THEN <<>>
    ELSE <<w[1].lhs, Code(w[1].op), w[1].rhs>> \o WhereTokens(Tail(w))

SqlText(st) ==
    <<Code(st.kind)>>
        \o (IF st.sample.mode = "all" THEN <<>>
            ELSE <<Code(st.sample.mode), [v |-> Dec(st.sample.n), src |-> "code"]>>)
        \o WhereTokens(st.where) \o st.order
        \o (IF st.paged THEN <<Placeholder, Placeholder>> ELSE <<>>)
        \o (IF st.limited THEN <<Placeholder>> ELSE <<>>)

PlaceholderCount(st) ==
    LET text == SqlText(st)
    IN  Cardinality({i \in 1..Len(text) : text[i] = Placeholder})

-----------------------------------------------------------------------------
(* Execution.  A predicate is true ("T"), false ("F"), unknown ("N", a     *)
(* NULL operand) or raises ("E") on a row.                                 *)

\* value of the left-hand expression on a row: <<tag, value>>
LhsValue(tok, row) ==
    IF tok.src # "code" THEN
        \* an identifier formatted into the text names a column or fails
        IF Len(tok.v) = 1 /\ tok.v[1] \in Columns \ IntColumns
        THEN <<"text", Col(row, tok.v[1])>> ELSE <<"error", NULL>>
    ELSE CASE tok.v[1] = "date_sql" ->
                  <<"text", DateSql(row.date)>>
           [] tok.v[1] = "weight_sql" ->
                  <<"num", get_weight_parsing_sql(row.weight)>>
           [] tok.v[1] = "cod_sql" ->
                  <<"num", get_cod_parsing_sql(row.cod)>>
           [] tok.v[1] \in IntColumns -> <<"int", Col(row, tok.v[1])>>
           [] OTHER -> <<"text", Col(row, tok.v[1])>>

\* s contains t as a contiguous run of symbols
Contains(s, t) ==
    \E i \in 0..(Len(s) - Len(t)) : SubSeq(s, i + 1, i + Len(t)) = t

\* the text between the wildcards of a '%...%' pattern
Unwrap(pat) == SubSeq(pat, 2, Len(pat) - 1)

Bool(b) == IF b THEN "T" ELSE "F"

TextPred(v, op, arg) ==
    IF op = "IS NOT NULL" THEN Bool(v # NULL)
    ELSE IF v = NULL THEN "N"
    ELSE CASE op = ">=" -> Bool(LexLeq(arg.s, v))
           [] op = "!= ''" -> Bool(v # <<>>)
           [] op = "!= 'NULL'" -> Bool(v # <<"N", "U", "L", "L">>)
           [] op = "~ '[0-9]'" -> Bool(DigitCount(v) > 0)
           [] op = "LIKE '__-___-__'" -> Bool(LikeLegacy(v))
           [] op = "<=" -> Bool(LexLeq(v, arg.s))
           [] op = "=" -> Bool(v = arg.s)
           [] op = "LIKE" -> Bool(Contains(v, Unwrap(arg.s)))
           [] op = "@@" -> Bool(Contains(v, arg.s))
           [] OTHER -> "E"

NumPred(x, op, arg) ==
    IF x.st = "error" THEN "E"
    ELSE IF x.st = "null" THEN (IF op = "= 0 OR IS NULL" THEN "T" ELSE "N")
    ELSE LET a == Num(arg.n, arg.sc)
         IN  CASE op = ">=" -> Bool(NumLeq(a, x))
               [] op = "<=" -> Bool(NumLeq(x, a))
               [] op = ">" -> Bool(NumLess(a, x))
               [] op = "> 0" -> Bool(NumLess(Num(0, 0), x))
               [] op = "= 0 OR IS NULL" -> Bool(NumEq(x, Num(0, 0)))
               [] OTHER -> "E"

IntPred(n, op, arg) ==
    CASE op = "=" -> Bool(n = arg.n)
      [] OTHER -> "E"

\* A text formatted into the place of a column is read as SQL: the text
\* '1=1 OR <column>' makes the predicate true on every row (the requests of
\* the model send it with no further condition, so that the precedence of OR
\* over the conjuncts that follow plays no part).
AlwaysTrue(tok) ==
    /\ tok.src # "code" /\ Len(tok.v) = 2 /\ tok.v[1] = "1=1 OR "
    /\ tok.v[2] \in Columns \ IntColumns

PredValue(p, arg, row) ==
    LET lv == LhsValue(p.lhs, row)
    IN  CASE AlwaysTrue(p.lhs) -> "T"
          [] lv[1] = "error" -> "E"
          [] lv[1] = "text" -> TextPred(lv[2], p.op, arg)
          [] lv[1] = "num" -> NumPred(lv[2], p.op, arg)
          [] lv[1] = "int" -> IntPred(lv[2], p.op, arg)

\* the values of the predicates of a WHERE clause on a row, the placeholders
\* taking the parameters in order
RECURSIVE WhereValues(_, _, _)
WhereValues(w, params, row) ==
    IF w = <<>> THEN <<>>
    ELSE IF w[1].rhs = Placeholder
         THEN <<PredValue(w[1], params[1], row)>>
                  \o WhereValues(Tail(w), Tail(params), row)
         ELSE <<PredValue(w[1], PInt(0), row)>>
                  \o WhereValues(Tail(w), params, row)

\* The engine evaluates the conjuncts in an order of its choosing: `eager`
\* evaluates all of them, otherwise evaluation stops at the first conjunct
\* that is not true.
RowOutcome(vals, eager) ==
    LET firstBad == IF \E i \in 1..Len(vals) : vals[i] # "T"
                    THEN CHOOSE i \in 1..Len(vals) :
                             vals[i] # "T" /\ \A j \in 1..(i - 1) : vals[j] = "T"
                    ELSE 0
    IN  IF eager
        THEN (IF \E i \in 1..Len(vals) : vals[i] = "E" THEN "E"
              ELSE IF firstBad = 0 THEN "T" ELSE "F")
        ELSE (IF firstBad = 0 THEN "T"
              ELSE IF vals[firstBad] = "E" THEN "E" ELSE "F")

\* the n rows of S with the highest ids
TopById(S, n, tbl) ==
    {i \in S : Cardinality({j \in S : tbl[j].id > tbl[i].id}) < n}

\* the rows the WHERE clause of a statement is evaluated on
Window(st, tbl) ==
    CASE st.sample.mode = "id_window" ->
             {i \in 1..Len(tbl) :
                 \A j \in 1..Len(tbl) : tbl[i].id > tbl[j].id - st.sample.n}
      [] st.sample.mode = "limit_filter" ->
             TopById(1..Len(tbl), st.sample.n, tbl)
      [] OTHER -> 1..Len(tbl)

\* indexes of the rows a statement selects, or the statement raises
Matching(st, tbl, eager) ==
    LET kept == {i \in Window(st, tbl) :
                    RowOutcome(WhereValues(st.where, st.params, tbl[i]), eager)
                        = "T"}
    IN  IF st.sample.mode = "filter_limit"
        THEN TopById(kept, st.sample.n, tbl) ELSE kept

Raises(st, tbl, eager) ==
    \/ Len(st.params) # PlaceholderCount(st)
    \/ \E i \in Window(st, tbl) :
          RowOutcome(WhereValues(st.where, st.params, tbl[i]), eager) = "E"
    \/ st.paged /\ (st.params[Len(st.params) - 1].n < 0
                    \/ st.params[Len(st.params)].n < 0)
    \/ st.limited /\ st.params[Len(st.params)].n < 0

\* r comes before s under ORDER BY <order> DESC; rows with equal keys come
\* in an order the engine chooses (tieAsc)
Before(order, tbl, r, s, tieAsc) ==
    LET tie == IF tieAsc THEN r < s ELSE r > s
        kr  == DateSql(tbl[r].date)
        ks  == DateSql(tbl[s].date)
    IN  IF order = Code("id") THEN tbl[r].id > tbl[s].id
        ELSE IF kr = ks THEN tie
        ELSE IF kr = NULL THEN TRUE
        ELSE IF ks = NULL THEN FALSE
        ELSE LexLess(ks, kr)

RECURSIVE Sorted(_, _, _, _)
Sorted(S, order, tbl, tieAsc) ==
    IF S = {} THEN <<>>
    ELSE LET first == CHOOSE r \in S :
                          \A s \in S \ {r} : Before(order, tbl, r, s, tieAsc)
         IN  <<first>> \o Sorted(S \ {first}, order, tbl, tieAsc)

\* LIMIT l OFFSET o of a sequence
Page(seq, l, o) ==
    SubSeq(seq, o + 1, IF o + l < Len(seq) THEN o + l ELSE Len(seq))

\* execute_query on a count statement: the total
ExecCount(st, tbl, nd) == Cardinality(Matching(st, tbl, nd.eager))

\* execute_query on a data statement: the ids of the rows of the page
ExecData(st, tbl, nd) ==
    LET all == Sorted(Matching(st, tbl, nd.eager), st.order[1], tbl, nd.tieAsc)
        l   == st.params[Len(st.params) - 1].n
        o   == st.params[Len(st.params)].n
        pg  == Page(all, l, o)
    IN  [i \in 1..Len(pg) |-> tbl[pg[i]].id]

\* the choices the engine makes
EngineChoices == [eager : BOOLEAN, tieAsc : BOOLEAN]

-----------------------------------------------------------------------------
(* Requests and responses *)

\* int(s): an optional '-' and digits, else ValueError
IsInt(s) ==
    /\ s # None /\ s # <<>>
    /\ IF s[1] = "-" THEN Len(s) > 1 /\ AllDigits(Tail(s)) ELSE AllDigits(s)

IntOf(s) == IF s[1] = "-" THEN 0 - DigitsVal(Tail(s)) ELSE DigitsVal(s)

\* request.args.get(name, default) of a numeric parameter, before int()
ArgOr(s, default) == IF s = None THEN Dec(default) ELSE s

NoPagination ==
    [page |-> 0, limit |-> 0, total |-> 0, total_pages |-> 0,
     has_next |-> FALSE, has_prev |-> FALSE]

\* jsonify({'error': str(e)}), status: body lists the keys of the JSON body
ErrorResponse(status) ==
    [kind |-> "error", status |-> status, data |-> <<>>,
     pagination |-> NoPagination, body |-> {"error"}]

\* the keys a handler adds to the body of its successful response
Echo(out, keys) ==
    IF out.resp.status = 200
    THEN [out EXCEPT !.resp.body = @ \cup keys]
    ELSE out

\* (total_count + limit - 1) // limit
TotalPagesFloor(total, limit) == total \div limit
TotalPages(total, limit) == (total + limit - 1) \div limit

\* the pagination block of a listing response
Pagination(page, limit, total) ==
    [page |-> page, limit |-> limit, total |-> total,
     total_pages |-> TotalPages(total, limit),
     has_next |-> page < TotalPages(total, limit),
     has_prev |-> page > 1]

ListingResponse(data, page, limit, total) ==
    [kind |-> "listing", status |-> 200, data |-> data,
     pagination |-> Pagination(page, limit, total),
     body |-> {"data", "pagination"}]

\* offset = (page - 1) * limit
OffsetFromPage(page, limit) == page * limit
Offset(page, limit) == (page - 1) * limit

\* a handler that answers with the total alone when the data statement fails
RunListingPartial(where, params, order, page, limit, tbl, nd) ==
    LET count == CountStmt(where, params)
        data  == DataStmt(where, order,
                          params \o <<PInt(limit), PInt(Offset(page, limit))>>)
    IN  IF Raises(count, tbl, nd.eager)
        THEN [stmts |-> <<count>>, resp |-> ErrorResponse(500)]
        ELSE IF limit = 0
        THEN [stmts |-> <<count, data>>, resp |-> ErrorResponse(500)]
        ELSE IF Raises(data, tbl, nd.eager)
        THEN [stmts |-> <<count, data>>,
              resp |-> ListingResponse(<<>>, page, limit,
                                       ExecCount(count, tbl, nd))]
        ELSE [stmts |-> <<count, data>>,
              resp |-> ListingResponse(ExecData(data, tbl, nd), page, limit,
                                       ExecCount(count, tbl, nd))]

\* The common tail of the listing handlers: the count statement, then the
\* data statement with limit and offset appended to the same parameters, then
\* the pagination block.  Yields the statements handed to the database and
\* the response; an exception at any step is the handler's 500.
RunListing(where, params, order, page, limit, tbl, nd) ==
    LET count == CountStmt(where, params)
        data  == DataStmt(where, order,
                          params \o <<PInt(limit), PInt(Offset(page, limit))>>)
    IN  IF Raises(count, tbl, nd.eager)
        THEN [stmts |-> <<count>>, resp |-> ErrorResponse(500)]
        ELSE IF Raises(data, tbl, nd.eager) \/ limit = 0
        THEN [stmts |-> <<count, data>>, resp |-> ErrorResponse(500)]
        ELSE [stmts |-> <<count, data>>,
              resp |-> ListingResponse(ExecData(data, tbl, nd), page, limit,
                                       ExecCount(count, tbl, nd))]

\* WHERE <date_sql> >= %s AND <date_sql> <= %s
DateRangeWhere ==
    <<Pred(Code("date_sql"), ">=", Placeholder),
      Pred(Code("date_sql"), "<=", Placeholder)>>

\* WHERE shipment_creation_date >= %s AND shipment_creation_date <= %s
RawDateRangeWhere ==
    <<Pred(Code("shipment_creation_date"), ">=", Placeholder),
      Pred(Code("shipment_creation_date"), "<=", Placeholder)>>

\* the preset date filter of a handler: <<where, params>>
PresetDateFilter(date_filter, today) ==
    LET r == parse_date_filter(date_filter, today)
    IN  IF Truthy(date_filter) /\ date_filter # Total
           /\ Truthy(r[1]) /\ Truthy(r[2])
        THEN <<DateRangeWhere, <<PText(r[1]), PText(r[2])>>>>
        ELSE <<<<>>, <<>>>>

\* both ends of a custom range are given and normalize to something
HasCustomRange(a) ==
    /\ Truthy(a.start_date) /\ Truthy(a.end_date)
    /\ Truthy(normalize_iso_to_yyyymmdd(a.start_date))
    /\ Truthy(normalize_iso_to_yyyymmdd(a.end_date))

CustomRangeParams(a) ==
    <<PText(normalize_iso_to_yyyymmdd(a.start_date)),
      PText(normalize_iso_to_yyyymmdd(a.end_date))>>

\* GET /api/shipments
get_all_shipments(a, tbl, today, nd) ==
    IF ~IsInt(ArgOr(a.page, 1)) \/ ~IsInt(ArgOr(a.limit, 10))
    THEN [stmts |-> <<>>, resp |-> ErrorResponse(500)]
    ELSE LET page   == IntOf(ArgOr(a.page, 1))
             limit  == IntOf(ArgOr(a.limit, 10))
             preset == PresetDateFilter(a.date_filter, today)
             where  == IF HasCustomRange(a) THEN RawDateRangeWhere
                       ELSE preset[1]
             params == IF HasCustomRange(a) THEN CustomRangeParams(a)
                       ELSE preset[2]
         IN  RunListing(where, params, Code("id"), page, limit, tbl, nd)

\* f'%{value}%'
Wrap(value) == <<"%">> \o value \o <<"%">>

\* GET /api/shipments/filter
filter_shipments(a, tbl, today, nd) ==
    IF ~IsInt(ArgOr(a.page, 1)) \/ ~IsInt(ArgOr(a.limit, 20))
    THEN [stmts |-> <<>>, resp |-> ErrorResponse(500)]
    ELSE IF ~Truthy(a.column) \/ ~Truthy(a.value)
    THEN [stmts |-> <<>>, resp |-> ErrorResponse(400)]
    ELSE LET page   == IntOf(ArgOr(a.page, 1))
             limit  == IntOf(ArgOr(a.limit, 20))
             preset == PresetDateFilter(a.date_filter, today)
             where  == <<Pred(Interp("column", a.column), "LIKE", Placeholder)>>
                           \o preset[1]
             params == <<PText(Wrap(a.value))>> \o preset[2]
         IN  Echo(RunListing(where, params, Code("date_sql"), page, limit,
                             tbl, nd),
                  {"count", "filter"})

\* GET /api/shipments/search
search_shipments(a, tbl, today, nd) ==
    LET query == IF a.query = None THEN <<>> ELSE Trim(a.query)
    IN  IF ~Truthy(query)
        THEN [stmts |-> <<>>, resp |-> ErrorResponse(400)]
        ELSE IF ~IsInt(ArgOr(a.page, 1)) \/ ~IsInt(ArgOr(a.limit, 20))
        THEN [stmts |-> <<>>, resp |-> ErrorResponse(500)]
        ELSE LET page   == IntOf(ArgOr(a.page, 1))
                 limit  == IntOf(ArgOr(a.limit, 20))
                 preset == PresetDateFilter(a.date_filter, today)
                 where  == <<Pred(Code("search_text"), "@@", Placeholder)>>
                               \o preset[1]
                 params == <<PText(query)>> \o preset[2]
             IN  Echo(RunListing(where, params, Code("date_sql"), page,
                                 limit, tbl, nd),
                      {"search"})

\* the fields of advanced search in the order the handler tests them: request
\* parameter, column or expression, and the shape of the predicate
AdvFields == <<
    [arg |-> "id", col |-> "id", cls |-> "int"],
    [arg |-> "shipment_number", col |-> "number_shipment", cls |-> "like"],
    [arg |-> "reference_number", col |-> "shipment_reference_number",
     cls |-> "like"],
    [arg |-> "country_code", col |-> "country_code", cls |-> "eq"],
    [arg |-> "number_of_boxes", col |-> "number_of_shipment_boxes",
     cls |-> "int"],
    [arg |-> "description", col |-> "shipment_description", cls |-> "like"],
    [arg |-> "pdf_filename", col |-> "pdf_filename", cls |-> "like"],
    [arg |-> "creation_date_from", col |-> "date_sql", cls |-> "from"],
    [arg |-> "creation_date_to", col |-> "date_sql", cls |-> "to"],
    [arg |-> "processing_date_from", col |-> "processing_date", cls |-> "from"],
    [arg |-> "processing_date_to", col |-> "processing_date", cls |-> "to"],
    [arg |-> "min_weight", col |-> "weight_sql", cls |-> "min"],
    [arg |-> "max_weight", col |-> "weight_sql", cls |-> "max"],
    [arg |-> "cod", col |-> "cod_sql", cls |-> "cod"],
    [arg |-> "shipper_name", col |-> "shipper_name", cls |-> "like"],
    [arg |-> "shipper_city", col |-> "shipper_city", cls |-> "like"],
    [arg |-> "shipper_phone", col |-> "shipper_phone", cls |-> "like"],
    [arg |-> "shipper_address", col |-> "shipper_address", cls |-> "like"],
    [arg |-> "consignee_name", col |-> "consignee_name", cls |-> "like"],
    [arg |-> "consignee_city", col |-> "consignee_city", cls |-> "like"],
    [arg |-> "consignee_phone", col |-> "consignee_phone", cls |-> "like"],
    [arg |-> "consignee_address", col |-> "consignee_address", cls |-> "like"] >>

AdvArgNames == {AdvFields[i].arg : i \in 1..Len(AdvFields)}

Yes == <<"y", "e", "s">>
No  == <<"n", "o">>

NoFragment == [where |-> <<>>, params |-> <<>>, err |-> FALSE]
Fragment(lhs, op, param) ==
    [where |-> <<Pred(Code(lhs), op, Placeholder)>>, params |-> <<param>>,
     err |-> FALSE]

\* a condition written into the text with no placeholder
Constant(lhs, op) ==
    [where |-> <<Pred(Code(lhs), op, Code(""))>>, params |-> <<>>,
     err |-> FALSE]

\* the request fails: the handler's except answers 500
Failure == [where |-> <<>>, params |-> <<>>, err |-> TRUE]

\* a weight bound: float() of the text is bound, a text float() rejects is
\* passed over (except ValueError: pass)
WeightFragmentStrict(col, op, v) ==
    IF Float(v).st = "error" THEN Failure
    ELSE Fragment(col, op, PNum(Float(v)))

WeightFragment(col, op, v) ==
    IF Float(v).st = "error" THEN NoFragment
    ELSE Fragment(col, op, PNum(Float(v)))

\* the COD filter: 'yes' and 'no' in any case, nothing for another text
CodFragmentBinary(col, v) ==
    IF Lower(v) = Yes THEN Constant(col, "> 0")
    ELSE Constant(col, "= 0 OR IS NULL")

CodFragment(col, v) ==
    IF Lower(v) = Yes THEN Constant(col, "> 0")
    ELSE IF Lower(v) = No THEN Constant(col, "= 0 OR IS NULL")
    ELSE NoFragment

\* what one field adds to the WHERE clause and the parameters; err: int()
\* raised, which the handler's except turns into a 500
AdvFragmentInline(f, v) ==
    IF ~Truthy(v) THEN NoFragment
    ELSE IF f.cls = "like"
    THEN [where |-> <<Pred(Code(f.col), "LIKE", Interp(f.arg, Wrap(v)))>>,
          params |-> <<>>, err |-> FALSE]
    ELSE Fragment(f.col, "=", PText(v))

AdvFragment(f, v) ==
    IF ~Truthy(v) THEN NoFragment
    ELSE CASE f.cls = "int" ->
                  IF IsInt(v) THEN Fragment(f.col, "=", PInt(IntOf(v)))
                  ELSE Failure
           [] f.cls = "like" -> Fragment(f.col, "LIKE", PText(Wrap(v)))
           [] f.cls = "eq" -> Fragment(f.col, "=", PText(v))
           [] f.cls = "from" -> Fragment(f.col, ">=", PText(v))
           [] f.cls = "to" -> Fragment(f.col, "<=", PText(v))
           [] f.cls = "min" -> WeightFragment(f.col, ">=", v)
           [] f.cls = "max" -> WeightFragment(f.col, "<=", v)
           [] f.cls = "cod" -> CodFragment(f.col, v)

\* the fragments in the order of the handler's tests, but the parameter of
\* each field put before those of the fields tested earlier
RECURSIVE AdvBuildParamsReversed(_, _)
AdvBuildParamsReversed(fields, a) ==
    IF fields = <<>> THEN NoFragment
    ELSE LET f    == AdvFragment(fields[1], a[fields[1].arg])
             rest == AdvBuildParamsReversed(Tail(fields), a)
         IN  [where |-> f.where \o rest.where,
              params |-> rest.params \o f.params,
              err |-> f.err \/ rest.err]

\* the fragments of the fields in the order of the handler's tests, the
\* parameters in the order of their fragments
RECURSIVE AdvBuild(_, _)
AdvBuild(fields, a) ==
    IF fields = <<>> THEN NoFragment
    ELSE LET f    == AdvFragment(fields[1], a[fields[1].arg])
             rest == AdvBuild(Tail(fields), a)
         IN  [where |-> f.where \o rest.where,
              params |-> f.params \o rest.params,
              err |-> f.err \/ rest.err]

\* GET /api/shipments/advanced-search
advanced_search(a, tbl, today, nd) ==
    IF ~IsInt(ArgOr(a.page, 1)) \/ ~IsInt(ArgOr(a.limit, 20))
    THEN [stmts |-> <<>>, resp |-> ErrorResponse(500)]
    ELSE LET b == AdvBuild(AdvFields, a)
         IN  IF b.err THEN [stmts |-> <<>>, resp |-> ErrorResponse(500)]
             ELSE Echo(RunListing(b.where, b.params, Code("date_sql"),
                                  IntOf(ArgOr(a.page, 1)),
                                  IntOf(ArgOr(a.limit, 20)), tbl, nd),
                       {"count", "filters"})

-----------------------------------------------------------------------------
(* Shipments of one shipper or consignee *)

\* SELECT * FROM shipments <where> ORDER BY <date_sql> DESC LIMIT %s
LimitedStmt(where, params) ==
    [DataStmt(where, Code("date_sql"), params) EXCEPT !.paged = FALSE,
                                                      !.limited = TRUE]

RowsResponse(data) ==
    [kind |-> "rows", status |-> 200, data |-> data,
     pagination |-> NoPagination, body |-> {"data", "count", "filters"}]

\* the common body of by-shipper and by-consignee: int(limit) comes before
\* the test of the name
ShipmentsBy(col, name, a, tbl, today, nd) ==
    IF ~IsInt(ArgOr(a.limit, 50))
    THEN [stmts |-> <<>>, resp |-> ErrorResponse(500)]
    ELSE IF ~Truthy(name)
    THEN [stmts |-> <<>>, resp |-> ErrorResponse(400)]
    ELSE LET limit  == IntOf(ArgOr(a.limit, 50))
             preset == PresetDateFilter(a.date_filter, today)
             st     == LimitedStmt(
                           <<Pred(Code(col), "LIKE", Placeholder)>>
                               \o preset[1],
                           <<PText(Wrap(name))>> \o preset[2]
                               \o <<PInt(limit)>>)
         IN  IF Raises(st, tbl, nd.eager)
             THEN [stmts |-> <<st>>, resp |-> ErrorResponse(500)]
             ELSE LET all == Sorted(Matching(st, tbl, nd.eager),
                                    Code("date_sql"), tbl, nd.tieAsc)
                      pg  == Page(all, limit, 0)
                  IN  [stmts |-> <<st>>,
                       resp |-> RowsResponse([i \in 1..Len(pg) |->
                                                 tbl[pg[i]].id])]

\* GET /api/shipments/by-shipper
get_shipments_by_shipper(a, tbl, today, nd) ==
    ShipmentsBy("shipper_name", a.shipper_name, a, tbl, today, nd)

\* GET /api/shipments/by-consignee
get_shipments_by_consignee(a, tbl, today, nd) ==
    ShipmentsBy("consignee_name", a.consignee_name, a, tbl, today, nd)

-----------------------------------------------------------------------------
(* Export *)

\* a key the JSON body does not have
Absent == <<"Absent">>

Csv == <<"c", "s", "v">>
Pdf == <<"p", "d", "f">>

\* the name of the file an export writes: f"export_{file_id}.csv" or .pdf
ExportName(file_id, ext) == <<"export_">> \o file_id \o <<".">> \o ext

ExportResponse(filename) ==
    [kind |-> "export", status |-> 200, data |-> filename,
     pagination |-> NoPagination,
     body |-> {"success", "filename", "download_url", "format",
               "record_count"}]

\* POST /api/export with file_id the value uuid4 gave: the response and the
\* files written into the temporary directory.  A format that is JSON null
\* has no lower(): the handler's except answers 500.
export_data(b, file_id) ==
    IF b.format = Absent \/ b.data = Absent
    THEN [resp |-> ErrorResponse(400), files |-> <<>>]
    ELSE IF b.format = None
    THEN [resp |-> ErrorResponse(500), files |-> <<>>]
    ELSE IF Lower(b.format) \notin {Pdf, Csv}
    THEN [resp |-> ErrorResponse(400), files |-> <<>>]
    ELSE LET filename == ExportName(file_id, Lower(b.format))
         IN  [resp |-> ExportResponse(filename),
              files |-> <<[name |-> filename, rows |-> b.data]>>]

\* the names of the files of a directory
Names(dir) == {dir[i].name : i \in 1..Len(dir)}

\* what the file of this name holds: a later write of a name replaces the
\* earlier one
Content(filename, dir) ==
    LET at == {i \in 1..Len(dir) : dir[i].name = filename}
    IN  dir[CHOOSE i \in at : \A j \in at : j <= i].rows

FileResponse(rows) ==
    [kind |-> "file", status |-> 200, data |-> rows,
     pagination |-> NoPagination, body |-> {}]

\* GET /api/download/<filename>: the file of this name of the temporary
\* directory, whoever wrote it, and 404 when the directory has none
download_file(filename, dir) ==
    IF filename \notin Names(dir)
    THEN ErrorResponse(404)
    ELSE FileResponse(Content(filename, dir))

-----------------------------------------------------------------------------
(* Aggregate endpoints *)

SampleToday == 24000
SampleWeek  == 168000
SampleMonth == 720000
SampleYear  == 8640000
SampleOther == 720000
SampleTotal == 100000
SampleCustomRange == 1000000

\* the sample size an aggregate handler picks for a date_filter
SampleSize(date_filter) ==
    CASE date_filter = Today -> SampleToday
      [] date_filter = Week -> SampleWeek
      [] date_filter = Month -> SampleMonth
      [] date_filter = Year -> SampleYear
      [] OTHER -> SampleOther

NotEmpty(col) ==
    <<Pred(Code(col), "IS NOT NULL", Code("")), Pred(Code(col), "!= ''", Code(""))>>

AggregateResponse(data) ==
    [kind |-> "aggregate", status |-> 200, data |-> data,
     pagination |-> NoPagination, body |-> {"data", "date_filter"}]

\* the groups of a working set by a column, with their row counts
Groups(ws, tbl, col) ==
    {[n |-> Cardinality({i \in ws : Col(tbl[i], col) = k}), key |-> k] :
        k \in {Col(tbl[i], col) : i \in ws}}

\* ORDER BY shipment_count DESC LIMIT l; equal counts in the engine's order
RECURSIVE TopGroups(_, _, _)
TopGroups(G, l, tieAsc) ==
    IF G = {} \/ l = 0 THEN <<>>
    ELSE LET first == CHOOSE g \in G : \A h \in G \ {g} :
                          \/ g.n > h.n
                          \/ g.n = h.n /\ (IF tieAsc THEN LexLess(g.key, h.key)
                                           ELSE LexLess(h.key, g.key))
         IN  <<first>> \o TopGroups(G \ {first}, l - 1, tieAsc)

\* one aggregate statement handed to the database; data is what the handler
\* makes of the rows it selects
RunAggregate(st, data, tbl, nd) ==
    IF Raises(st, tbl, nd.eager)
    THEN [stmts |-> <<st>>, resp |-> ErrorResponse(500)]
    ELSE [stmts |-> <<st>>, resp |-> AggregateResponse(data)]

\* the statement of a top-N handler: where_conditions and the date parameters
\* the handler collected are not part of it
TopStmt(kind, notnull, a) ==
    IF Truthy(a.date_filter) /\ a.date_filter # Total
    THEN AggStmt(kind, Sample("id_window", SampleSize(a.date_filter)), notnull,
                 TRUE, <<>>)
    ELSE AggStmt(kind, Sample("filter_limit", SampleTotal), notnull, TRUE, <<>>)

WithLimit(st, limit) == [st EXCEPT !.params = st.params \o <<PInt(limit)>>]

\* GET /api/customers/top
get_top_customers(a, tbl, today, nd) ==
    IF ~IsInt(ArgOr(a.limit, 10))
    THEN [stmts |-> <<>>, resp |-> ErrorResponse(500)]
    ELSE LET limit == IntOf(ArgOr(a.limit, 10))
             st == WithLimit(TopStmt("top_customers", NotEmpty("shipper_name"),
                                     a), limit)
             data == TopGroups(Groups(Matching(st, tbl, nd.eager), tbl,
                                      "shipper_name"), limit, nd.tieAsc)
         IN  Echo(RunAggregate(st, data, tbl, nd), {"limit"})

\* GET /api/cities/top: date_filter defaults to 'month'
get_top_cities(a, tbl, today, nd) ==
    IF ~IsInt(ArgOr(a.limit, 10))
    THEN [stmts |-> <<>>, resp |-> ErrorResponse(500)]
    ELSE LET limit == IntOf(ArgOr(a.limit, 10))
             b  == [a EXCEPT !.date_filter = IF @ = None THEN Month ELSE @]
             st == WithLimit(TopStmt("top_cities",
                       NotEmpty("consignee_city")
                           \o <<Pred(Code("consignee_city"), "!= 'NULL'", Code(""))>>,
                       b), limit)
             data == TopGroups(Groups(Matching(st, tbl, nd.eager), tbl,
                                      "consignee_city"), limit, nd.tieAsc)
         IN  Echo(RunAggregate(st, data, tbl, nd), {"limit"})

NumAdd(a, b) ==
    IF a.s >= b.s THEN Num(a.n + b.n * Pow10(a.s - b.s), a.s)
    ELSE Num(a.n * Pow10(b.s - a.s) + b.n, b.s)

\* the sum of the extracted weights of a working set
RECURSIVE WeightSum(_, _)
WeightSum(ws, tbl) ==
    IF ws = {} THEN Num(0, 0)
    ELSE LET i == CHOOSE j \in ws : TRUE
         IN  NumAdd(get_weight_parsing_sql(tbl[i].weight),
                    WeightSum(ws \ {i}, tbl))

\* GET /api/shipments/average-weight: AVG(<weight_sql>) and COUNT(*) over the
\* sample; a weight of the sample that does not cast fails the statement
get_average_weight(a, tbl, today, nd) ==
    LET st == [TopStmt("average_weight",
                   NotEmpty("shipment_weight")
                       \o <<Pred(Code("shipment_weight"), "~ '[0-9]'", Code(""))>>,
                   a) EXCEPT !.limited = FALSE]
        ws == Matching(st, tbl, nd.eager)
    IN  IF Raises(st, tbl, nd.eager)
           \/ \E i \in ws : get_weight_parsing_sql(tbl[i].weight).st = "error"
        THEN [stmts |-> <<st>>, resp |-> ErrorResponse(500)]
        ELSE [stmts |-> <<st>>,
              resp |-> AggregateResponse(
                           [weight_sum |-> WeightSum(ws, tbl),
                            total_shipments |-> Cardinality(ws)])]

\* WHERE shipment_creation_date IS NOT NULL AND != '' AND LIKE '__-___-__'
LegacyDated ==
    NotEmpty("shipment_creation_date")
        \o <<Pred(Code("shipment_creation_date"), "LIKE '__-___-__'", Code(""))>>

\* GET /api/shipments/total: date_filter defaults to 'month'
get_total_shipments(a, tbl, today, nd) ==
    LET date_filter == IF a.date_filter = None THEN Month ELSE a.date_filter
        exact  == CountStmt(<<>>, <<>>)
        sample == AggStmt("count", Sample("limit_filter", SampleSize(date_filter)),
                          LegacyDated, FALSE, <<>>)
        custom == AggStmt("count", Sample("limit_filter", SampleCustomRange),
                          LegacyDated, FALSE, <<>>)
        data(st) == [total |-> Cardinality(Matching(st, tbl, nd.eager))]
    IN  IF date_filter = Total THEN RunAggregate(exact, data(exact), tbl, nd)
        ELSE IF ~HasCustomRange(a)
        THEN RunAggregate(sample, data(sample), tbl, nd)
        ELSE [stmts |-> <<sample, custom>>,
              resp |-> AggregateResponse(data(custom))]

-----------------------------------------------------------------------------
(* Custom reports.  The text of a report's statement is a sequence of       *)
(* tokens as above: the sql_query of a request body is one token of source *)
(* "sql_query", the derived statement is made of the code's words, the      *)
(* joined columns and placeholders.                                        *)

\* ", ".join(columns)
RECURSIVE Join(_)
Join(columns) ==
    IF columns = <<>> THEN <<>>
    ELSE IF Len(columns) = 1 THEN columns[1]
    ELSE columns[1] \o <<",", " ">> \o Join(Tail(columns))

\* the keys build_sql_query_from_filters reads, in the order of the body
LikeKeys == <<"shipper_name", "consignee_city">>

RECURSIVE LikeConditions(_, _)
LikeConditions(keys, filters) ==
    IF keys = <<>> THEN <<>>
    ELSE (IF Truthy(filters[keys[1]])
          THEN <<Pred(Code(keys[1]), "LIKE", Placeholder)>> ELSE <<>>)
             \o LikeConditions(Tail(keys), filters)

FallbackQuery == <<Code("SELECT * FROM shipments ORDER BY id DESC LIMIT 1000")>>

\* build_sql_query_from_filters: the text alone is returned, the parameters
\* collected for its placeholders are not; float() of a weight that is no
\* number raises inside the try, and the fallback text is returned
build_sql_query_from_filters(filters, columns, today) ==
    LET select == IF columns # <<>> THEN Interp("columns", Join(columns))
                  ELSE Code("*")
        r      == parse_date_filter(filters.date_filter, today)
        dated  == IF Truthy(filters.date_filter) /\ filters.date_filter # Total
                     /\ Truthy(r[1]) /\ Truthy(r[2])
                  THEN DateRangeWhere ELSE <<>>
        weight == IF Truthy(filters.min_weight)
                  THEN <<Pred(Code("weight_sql"), ">=", Placeholder)>> ELSE <<>>
    IN  IF Truthy(filters.min_weight) /\ Float(filters.min_weight).st = "error"
        THEN FallbackQuery
        ELSE <<Code("SELECT"), select, Code("FROM shipments")>>
                 \o WhereTokens(dated \o LikeConditions(LikeKeys, filters)
                                    \o weight)
                 \o <<Code("ORDER BY id DESC LIMIT 1000")>>

\* data.get('filters', {}) and data.get('columns', []) of a body
NoFilters ==
    [date_filter |-> None, shipper_name |-> None, min_weight |-> None,
     consignee_city |-> None]

\* a statement of the custom reports: its text, the values bound to it and
\* the method of DatabaseManager that executes it
ReportStmt(text, params, via) == [text |-> text, params |-> params, via |-> via]

ReportResponse(status, keys) ==
    [kind |-> "report", status |-> status, data |-> <<>>,
     pagination |-> NoPagination, body |-> keys]

\* the text the derivation wins over
StoredQueryDerivedFirst(b, today) ==
    IF {"filters", "columns"} \subseteq b.has
    THEN build_sql_query_from_filters(b.filters, b.columns, today)
    ELSE IF Truthy(b.sql_query) THEN <<Interp("sql_query", b.sql_query)>>
    ELSE <<>>

\* sql_query = data.get('sql_query', ''), derived from filters and columns
\* when it is empty and the body has both keys
StoredQuery(b, today) ==
    IF Truthy(b.sql_query) THEN <<Interp("sql_query", b.sql_query)>>
    ELSE IF {"filters", "columns"} \subseteq b.has
    THEN build_sql_query_from_filters(b.filters, b.columns, today)
    ELSE <<>>

\* the row a body makes of a report
ReportRow(b, today, count) ==
    [columns |-> b.columns, filters |-> b.filters,
     sql_query |-> StoredQuery(b, today), execution_count |-> count]

InsertReport ==
    ReportStmt(<<Code("INSERT INTO custom_reports VALUES"), Placeholder,
                 Placeholder, Placeholder, Placeholder, Placeholder,
                 Code("RETURNING id")>>,
               <<"report_name", "description", "sql_query", "parameters",
                 "user_id">>, "execute_insert")

UpdateReport ==
    ReportStmt(<<Code("UPDATE custom_reports SET report_name ="), Placeholder,
                 Code("description ="), Placeholder,
                 Code("sql_query ="), Placeholder,
                 Code("parameters ="), Placeholder,
                 Code("WHERE id ="), Placeholder>>,
               <<"report_name", "description", "sql_query", "parameters",
                 "report_id">>, "execute_insert")

SelectReport ==
    ReportStmt(<<Code("SELECT * FROM custom_reports WHERE id ="),
                 Placeholder>>,
               <<"report_id">>, "execute_query")

CountExecution ==
    ReportStmt(<<Code("UPDATE custom_reports SET execution_count = execution_count + 1 WHERE id ="),
                 Placeholder>>,
               <<"report_id">>, "execute_insert")

\* POST /api/custom-reports: the response, the statements and the table
create_custom_report(b, rows, today) ==
    IF "report_name" \notin b.has
    THEN [stmts |-> <<>>, resp |-> ErrorResponse(400), reports |-> rows]
    ELSE [stmts |-> <<InsertReport>>,
          resp |-> ReportResponse(200, {"success", "id", "message"}),
          reports |-> Append(rows, ReportRow(b, today, 0))]

\* PUT /api/custom-reports/<id>: an id with no row updates nothing
update_custom_report(id, b, rows, today) ==
    IF "report_name" \notin b.has
    THEN [stmts |-> <<>>, resp |-> ErrorResponse(400), reports |-> rows]
    ELSE [stmts |-> <<UpdateReport>>,
          resp |-> ReportResponse(200, {"success", "message"}),
          reports |-> IF id \in 1..Len(rows)
                      THEN [rows EXCEPT ![id] =
                               ReportRow(b, today, rows[id].execution_count)]
                      ELSE rows]

\* a statement the database executes, and a text that is no statement
SelectAll == <<"SELECT * FROM shipments">>
NoSql     == <<"shipments">>

\* the database rejects a text sent with no parameters that holds a
\* placeholder, and a text that is no statement
Rejected(text) ==
    \E i \in 1..Len(text) :
        \/ text[i] = Placeholder
        \/ text[i].src = "sql_query" /\ text[i].v # SelectAll

\* POST /api/custom-reports/<id>/run
run_custom_report(id, rows, today) ==
    IF id \notin 1..Len(rows)
    THEN [stmts |-> <<SelectReport>>, resp |-> ErrorResponse(404),
          reports |-> rows]
    ELSE LET stored == rows[id].sql_query
             st == IF stored # <<>>
                   THEN ReportStmt(stored, <<>>, "execute_raw_query")
                   ELSE ReportStmt(
                            build_sql_query_from_filters(
                                rows[id].filters, rows[id].columns, today),
                            <<>>, "execute_query")
         IN  IF Rejected(st.text)
             THEN [stmts |-> <<SelectReport, st>>,
                   resp |-> ErrorResponse(500), reports |-> rows]
             ELSE [stmts |-> <<SelectReport, st, CountExecution>>,
                   resp |-> ReportResponse(200, {"success", "data", "count",
                                                 "report_config"}),
                   reports |-> [rows EXCEPT ![id].execution_count = @ + 1]]

-----------------------------------------------------------------------------
(* Large tables.  A table of very many rows is written as runs: a run      *)
(* stands for the rows with the ids lo..hi, every one with the content of  *)
(* one kind.  The runs of a table come in ascending order of id and do not *)
(* overlap; ids may be missing between them.                               *)

Run(lo, hi, k) == [kind |-> k, lo |-> lo, hi |-> hi]

\* an interval of ids; it is empty when lo > hi
Ids(lo, hi) == [lo |-> lo, hi |-> hi]
NoIds(r) == Ids(r.hi + 1, r.hi)
RowCount(iv) == IF iv.hi >= iv.lo THEN iv.hi - iv.lo + 1 ELSE 0

RECURSIVE RowsIn(_)
RowsIn(ivs) == IF ivs = <<>> THEN 0 ELSE RowCount(ivs[1]) + RowsIn(Tail(ivs))

\* the WHERE clause of a statement keeps the rows of a run
Keeps(st, r) ==
    RowOutcome(WhereValues(st.where, st.params, Row(r.hi, r.kind)), TRUE) = "T"

\* ORDER BY id DESC LIMIT n over the runs marked eligible: the ids taken
\* from each run
RECURSIVE TopOfRuns(_, _, _)
TopOfRuns(runs, eligible, n) ==
    IF runs = <<>> THEN <<>>
    ELSE LET k    == Len(runs)
             r    == runs[k]
             size == r.hi - r.lo + 1
             take == IF ~eligible[k] THEN 0 ELSE IF n < size THEN n ELSE size
         IN  TopOfRuns(SubSeq(runs, 1, k - 1), SubSeq(eligible, 1, k - 1),
                       n - take)
                 \o <<Ids(r.hi - take + 1, r.hi)>>

\* the rows a statement reads before its WHERE clause applies: those of the
\* id window or of the LIMIT of its sample, else the whole table
Windowed(st, runs) ==
    LET every == [i \in 1..Len(runs) |-> TRUE]
        maxid == runs[Len(runs)].hi
        from(r) == IF r.lo > maxid - st.sample.n THEN r.lo
                   ELSE maxid - st.sample.n + 1
    IN  CASE st.sample.mode = "id_window" ->
                 [i \in 1..Len(runs) |-> Ids(from(runs[i]), runs[i].hi)]
          [] st.sample.mode = "limit_filter" ->
                 TopOfRuns(runs, every, st.sample.n)
          [] OTHER -> [i \in 1..Len(runs) |-> Ids(runs[i].lo, runs[i].hi)]

\* the rows a statement aggregates
Sampled(st, runs) ==
    LET kept == [i \in 1..Len(runs) |-> Keeps(st, runs[i])]
        read == Windowed(st, runs)
    IN  IF st.sample.mode = "filter_limit"
        THEN TopOfRuns(runs, kept, st.sample.n)
        ELSE [i \in 1..Len(runs) |->
                 IF kept[i] THEN read[i] ELSE NoIds(runs[i])]

-----------------------------------------------------------------------------
(* Inputs of the model *)

Iso(y, m, d) == Pad(y, 4) \o <<"-">> \o Pad(m, 2) \o <<"-">> \o Pad(d, 2)

\* the days on which requests arrive
NowDates == {Date(2024, 1, 6)}

\* date_filter values: absent, the tokens, a token in capitals, literal dates
\* and a text that is no date
DateFilters ==
    {None, Today, Week, Total, <<"T", "o", "d", "a", "y">>,
     Iso(2024, 1, 5), <<"n", "o", "p", "e">>}

\* custom ranges: absent, or 2024-01-04 .. 2024-01-05
CustomRanges ==
    {[start_date |-> None, end_date |-> None],
     [start_date |-> Iso(2024, 1, 4), end_date |-> Iso(2024, 1, 5)]}

\* page and limit parameters: absent, or a number written out
PageArgs  == {None} \cup {Dec(n) : n \in 0..MaxPage}
LimitArgs == {None} \cup {Dec(n) : n \in 0..MaxPage}

\* list requests: every page and limit with and without a date filter, and
\* every date filter and custom range on the default page
ListArgs ==
    {[page |-> p, limit |-> l, date_filter |-> f,
      start_date |-> None, end_date |-> None] :
        p \in PageArgs, l \in LimitArgs, f \in {None, Today}}
    \cup
    {[page |-> None, limit |-> None, date_filter |-> f,
      start_date |-> r.start_date, end_date |-> r.end_date] :
        f \in DateFilters, r \in CustomRanges}

\* aggregate requests: every date filter with and without a custom range,
\* and a limit of one group with and without a date filter
AggArgs ==
    {[limit |-> None, date_filter |-> f,
      start_date |-> r.start_date, end_date |-> r.end_date] :
        f \in DateFilters \cup {Month, Year}, r \in CustomRanges}
    \cup
    {[limit |-> Dec(1), date_filter |-> f,
      start_date |-> None, end_date |-> None] : f \in {None, Week}}

Acme == <<"acme">>
Bolt == <<"bolt">>

\* filter requests: a column of the table, a column that LIKE cannot take, and
\* a text that is no column at all
FilterColumns ==
    {None, <<"shipper_name">>, <<"id">>, <<"1=1 OR ", "shipper_name">>}

FilterArgs ==
    {[page |-> None, limit |-> None, date_filter |-> None, value |-> v,
      column |-> c] : c \in FilterColumns, v \in {None, Acme, Bolt}}
    \cup
    {[page |-> p, limit |-> l, date_filter |-> f,
      value |-> Acme, column |-> <<"shipper_name">>] :
        f \in {None, Today}, p \in PageArgs, l \in LimitArgs}
    \cup
    {[page |-> <<"K">>, limit |-> None, date_filter |-> None, value |-> Acme,
      column |-> c] : c \in {None, <<"shipper_name">>}}

SearchArgs ==
    {[page |-> None, limit |-> None, date_filter |-> f, query |-> q] :
        q \in {None, <<>>, <<" ">>, Acme, <<" ", "bolt">>},
        f \in {None, Today, Iso(2024, 1, 5)}}
    \cup
    {[page |-> p, limit |-> l, date_filter |-> None, query |-> Acme] :
        p \in PageArgs, l \in LimitArgs}
    \cup
    {[page |-> <<"K">>, limit |-> None, date_filter |-> None, query |-> q] :
        q \in {None, Acme}}

\* by-shipper and by-consignee requests: the name missing, empty and given,
\* the limit missing, given and not a number
ByShipperArgs ==
    {[limit |-> l, date_filter |-> f, shipper_name |-> n] :
        l \in {None, Dec(1), <<"K">>}, f \in {None, Today},
        n \in {None, <<>>, Acme}}

ByConsigneeArgs ==
    {[limit |-> l, date_filter |-> f, consignee_name |-> n] :
        l \in {None, Dec(1), <<"K">>}, f \in {None, Today},
        n \in {None, <<>>, <<"x">>}}

\* export bodies: each key missing, the format null, csv and pdf in either
\* case, another format; a list of no row and of one row
ExportBodies ==
    {[data |-> d, format |-> f] :
        f \in {Absent, None, Csv, Pdf, <<"C", "S", "V">>, <<"x", "l", "s">>},
        d \in {Absent, <<>>, <<"row">>}}

\* advanced search: no field, one field, and the weight bound on every page
AdvNoArgs == [x \in AdvArgNames \cup {"page", "limit"} |-> None]

AdvProbes ==
    {<<"id", Dec(1)>>, <<"id", <<"K">>>>, <<"number_of_boxes", <<"K">>>>,
     <<"country_code", <<"x">>>>, <<"country_code", <<>>>>,
     <<"creation_date_from", Pad(20240105, 8)>>,
     <<"creation_date_to", Pad(20240105, 8)>>,
     <<"creation_date_to", Iso(2024, 1, 5)>>,
     <<"min_weight", <<"5">>>>, <<"min_weight", <<"K", "g">>>>,
     <<"min_weight", <<"7", ".", "2">>>>, <<"max_weight", <<"5">>>>,
     <<"max_weight", <<"K", "g">>>>,
     <<"cod", Yes>>, <<"cod", No>>, <<"cod", <<"N", "o">>>>,
     <<"cod", <<"K">>>>,
     <<"shipper_name", Acme>>, <<"consignee_city", <<"x">>>>}

AdvArgs ==
    {AdvNoArgs}
    \cup {[AdvNoArgs EXCEPT ![pr[1]] = pr[2]] : pr \in AdvProbes}
    \cup {[AdvNoArgs EXCEPT !["shipper_name"] = Acme, ![pr[1]] = pr[2]] :
             pr \in AdvProbes}
    \cup {[AdvNoArgs EXCEPT !["max_weight"] = <<"5">>, !["page"] = p,
                            !["limit"] = l] :
             p \in PageArgs, l \in LimitArgs}

\* texts handed to parse_date_filter: missing, empty, the tokens in both
\* cases, literal dates (the last day of a leap February, the last days
\* datetime can hold), dates no calendar has, and a text that is no date
DateTexts ==
    {None, <<>>, Today, Week, Month, Year, Total,
     <<"T", "o", "d", "a", "y">>, <<"W", "E", "E", "K">>,
     <<"T", "O", "T", "A", "L">>,
     Iso(2024, 1, 5), Iso(2024, 2, 29), Iso(2023, 12, 31), Iso(1000, 1, 1),
     Iso(9999, 12, 30), Iso(9999, 12, 31), Iso(2024, 2, 30), Iso(2024, 13, 1),
     <<"n", "o", "p", "e">>}

\* the days on which parse_date_filter is called
NormalizerDates == {Date(2024, 1, 6), Date(2024, 3, 1), Date(2025, 1, 1)}

\* values of shipment_creation_date: DD-Mon-YY dates, values of the same
\* shape with no month in them, and values of other shapes
LegacyDates ==
    {dd \o <<"-">> \o mon \o <<"-">> \o yy :
        dd \in {<<"0", "1">>, <<"0", "5">>, <<"3", "1">>},
        mon \in {<<"J", "a", "n">>, <<"F", "e", "b">>, <<"D", "e", "c">>},
        yy \in {<<"2", "3">>, <<"2", "4">>}}

LegacyTexts ==
    LegacyDates
    \cup {NULL, <<>>, <<"0", "5", "-", "J", "A", "N", "-", "2", "4">>,
          <<"0", "5", "-", "0", "1", "-", "2", "4">>,
          <<"0", "5", " ", "J", "a", "n", " ", "2", "4">>,
          Iso(2024, 1, 5), Pad(20240105, 8), <<"n", "o", "p", "e">>}

\* weight and COD texts: every text of at most MaxLen characters over a
\* digit, the point, a letter and the blank, and the examples of the
\* documentation
NumChars == {"5", "2", ".", "K", " "}

NumTexts ==
    UNION {[1..n -> NumChars] : n \in 0..MaxLen}
    \cup {NULL, <<"1", "2", ".", "5", " ", "K", "g">>,
          <<"7", ".", "2", " ", "K", "g">>, <<"3", " ", "K", "g">>,
          <<"N", "/", "A">>, <<"1", ".", "2", ".", "3">>}

\* large tables: runs of one row, of a day's rows and of a million rows, with
\* and without a weight, with and without ids missing before them
RunSizes == {1, SampleToday, SampleCustomRange}
RunGaps  == {0, 7}
RunKinds == {k \in RowKinds : k.weight \in {NULL, <<"3", " ", "K", "g">>}}
RunShapes == [kind : RunKinds, size : RunSizes, gap : RunGaps]

RECURSIVE BuildRuns(_)
BuildRuns(shapes) ==
    IF shapes = <<>> THEN <<>>
    ELSE LET k    == Len(shapes)
             rest == BuildRuns(SubSeq(shapes, 1, k - 1))
             lo   == (IF rest = <<>> THEN 0 ELSE rest[k - 1].hi)
                         + shapes[k].gap + 1
         IN  rest \o <<Run(lo, lo + shapes[k].size - 1, shapes[k].kind)>>

LargeTables ==
    {BuildRuns(s) : s \in UNION {[1..n -> RunShapes] : n \in 0..MaxRuns}}

\* aggregate requests on large tables: every bucket, with and without a
\* custom range
SamplingArgs ==
    {[limit |-> None, date_filter |-> f,
      start_date |-> r.start_date, end_date |-> r.end_date] :
        f \in {None, Today, Week, Month, Year, Total}, r \in CustomRanges}

\* bodies of create and update: the keys they have and their values, which
\* are the defaults of data.get for the keys they lack
ReportBody(has, sql_query, filters, columns) ==
    [columns |-> columns, filters |-> filters, has |-> has,
     sql_query |-> sql_query]

ReportFilters ==
    {NoFilters,
     [NoFilters EXCEPT !.shipper_name = Acme],
     [NoFilters EXCEPT !.date_filter = Today, !.min_weight = <<"K", "g">>]}

ReportColumns == {<<>>, <<<<"id">>, <<"cod">>>>}

ReportBodies ==
    {ReportBody({}, <<>>, NoFilters, <<>>)}
    \cup
    {ReportBody({"report_name"} \cup (IF q = None THEN {} ELSE {"sql_query"})
                    \cup {"filters", "columns"},
                IF q = None THEN <<>> ELSE q, f, c) :
        q \in {None, <<>>, SelectAll, NoSql}, f \in ReportFilters,
        c \in ReportColumns}
    \cup
    {ReportBody({"report_name", "sql_query"} \cup k, q,
                IF "filters" \in k THEN [NoFilters EXCEPT !.shipper_name = Acme]
                ELSE NoFilters, <<>>) :
        q \in {<<>>, SelectAll}, k \in {{}, {"filters"}, {"columns"}}}

-----------------------------------------------------------------------------
(* The state machine *)

NoRequest == [ep |-> "none"]

\* no thread of the server is serving a request
NoCalls == <<>>

\* nothing is being served: no statement, no response; the temporary
\* directory holds no file and scheduled_reports no row
Idle ==
    /\ req = NoRequest
    /\ stmts = <<>>
    /\ resp = ErrorResponse(0)
    /\ files = <<>>
    /\ schedules = <<>>
    /\ calls = NoCalls

Init ==
    /\ table \in Tables
    /\ now \in NowDates
    /\ reports = <<>>
    /\ Idle

\* a request is taken when none is being served, and served in one step
Handle(ep, a, out) ==
    /\ req = NoRequest
    /\ req' = [ep |-> ep, args |-> a]
    /\ stmts' = out.stmts
    /\ resp' = out.resp
    /\ UNCHANGED <<table, now, files, reports, schedules, calls>>

GetAllShipments ==
    \E a \in ListArgs, nd \in EngineChoices :
        Handle("list", a, get_all_shipments(a, table, now, nd))

\* the response is delivered; the service keeps nothing of the request
Respond ==
    /\ req # NoRequest
    /\ req' = NoRequest
    /\ stmts' = <<>>
    /\ resp' = ErrorResponse(0)
    /\ UNCHANGED <<table, now, files, reports, schedules, calls>>

FilterShipments ==
    \E a \in FilterArgs, nd \in EngineChoices :
        Handle("filter", a, filter_shipments(a, table, now, nd))

SearchShipments ==
    \E a \in SearchArgs, nd \in EngineChoices :
        Handle("search", a, search_shipments(a, table, now, nd))

AdvancedSearch ==
    \E a \in AdvArgs, nd \in EngineChoices :
        Handle("advanced", a, advanced_search(a, table, now, nd))

GetTopCustomers ==
    \E a \in AggArgs, nd \in EngineChoices :
        Handle("top_customers", a, get_top_customers(a, table, now, nd))

GetTopCities ==
    \E a \in AggArgs, nd \in EngineChoices :
        Handle("top_cities", a, get_top_cities(a, table, now, nd))

GetAverageWeight ==
    \E a \in AggArgs, nd \in EngineChoices :
        Handle("average_weight", a, get_average_weight(a, table, now, nd))

GetTotalShipments ==
    \E a \in AggArgs, nd \in EngineChoices :
        Handle("total", a, get_total_shipments(a, table, now, nd))

GetShipmentsByShipper ==
    \E a \in ByShipperArgs, nd \in EngineChoices :
        Handle("by_shipper", a, get_shipments_by_shipper(a, table, now, nd))

GetShipmentsByConsignee ==
    \E a \in ByConsigneeArgs, nd \in EngineChoices :
        Handle("by_consignee", a,
               get_shipments_by_consignee(a, table, now, nd))

\* a normalizer applied on its own: the request names it and its argument,
\* the response carries its value
Value(v) ==
    [kind |-> "value", status |-> 0, data |-> v, pagination |-> NoPagination,
     body |-> {}]

Apply(fn, arg, v) ==
    /\ req = NoRequest
    /\ req' = [ep |-> fn, args |-> arg]
    /\ stmts' = <<>>
    /\ resp' = Value(v)
    /\ UNCHANGED <<table, now, files, reports, schedules, calls>>

ParseDateFilter ==
    \E s \in DateTexts :
        Apply("parse_date_filter", s, parse_date_filter(s, now))

\* the date expression on two column values
GetDateFilterSql ==
    \E v \in LegacyTexts, w \in LegacyTexts :
        Apply("get_date_filter_sql", <<v, w>>, <<DateSql(v), DateSql(w)>>)

GetWeightParsingSql ==
    \E v \in NumTexts :
        Apply("get_weight_parsing_sql", v, get_weight_parsing_sql(v))

GetCodParsingSql ==
    \E v \in NumTexts :
        Apply("get_cod_parsing_sql", v, get_cod_parsing_sql(v))

Next ==
    \/ GetAllShipments
    \/ FilterShipments
    \/ SearchShipments
    \/ AdvancedSearch
    \/ GetTopCustomers
    \/ GetTopCities
    \/ GetAverageWeight
    \/ GetTotalShipments
    \/ GetShipmentsByShipper
    \/ GetShipmentsByConsignee
    \* the weight expression on its own: no table bears on its value
    \/ table = <<>> /\ GetWeightParsingSql
    \/ Respond

Spec == Init /\ [][Next]_vars

\* the value normalizers on their own, on an empty table
InitNormalizers ==
    /\ table = <<>>
    /\ now \in NormalizerDates
    /\ reports = <<>>
    /\ Idle

NextNormalizers ==
    \/ ParseDateFilter
    \/ GetDateFilterSql
    \/ GetWeightParsingSql
    \/ GetCodParsingSql
    \/ Respond

SpecNormalizers == InitNormalizers /\ [][NextNormalizers]_vars

\* An aggregate handler on a large table: the statements are those the
\* handler builds (they do not depend on the rows); the response of the
\* model is, for each statement, the rows the database reads and the rows it
\* aggregates.
Sampling(ep, a, sts) ==
    /\ req = NoRequest
    /\ req' = [ep |-> ep, args |-> a]
    /\ stmts' = sts
    /\ resp' = Value([i \in 1..Len(sts) |->
                         [read |-> Windowed(sts[i], table),
                          aggregated |-> Sampled(sts[i], table)]])
    /\ UNCHANGED <<table, now, files, reports, schedules, calls>>

SampleTopCustomers ==
    \E a \in SamplingArgs, nd \in EngineChoices :
        Sampling("top_customers", a, get_top_customers(a, <<>>, now, nd).stmts)

SampleTopCities ==
    \E a \in SamplingArgs, nd \in EngineChoices :
        Sampling("top_cities", a, get_top_cities(a, <<>>, now, nd).stmts)

SampleAverageWeight ==
    \E a \in SamplingArgs, nd \in EngineChoices :
        Sampling("average_weight", a,
                 get_average_weight(a, <<>>, now, nd).stmts)

SampleTotalShipments ==
    \E a \in SamplingArgs, nd \in EngineChoices :
        Sampling("total", a, get_total_shipments(a, <<>>, now, nd).stmts)

InitSampling ==
    /\ table \in LargeTables \ {<<>>}
    /\ now \in NowDates
    /\ reports = <<>>
    /\ Idle

NextSampling ==
    \/ SampleTopCustomers
    \/ SampleTopCities
    \/ SampleAverageWeight
    \/ SampleTotalShipments
    \/ Respond

SpecSampling == InitSampling /\ [][NextSampling]_vars

-----------------------------------------------------------------------------
(* The custom reports on their own *)

Report(ep, a, out) ==
    /\ req = NoRequest
    /\ req' = [ep |-> ep, args |-> a]
    /\ stmts' = out.stmts
    /\ resp' = out.resp
    /\ reports' = out.reports
    /\ UNCHANGED <<table, now, files, schedules, calls>>

CreateCustomReport ==
    \E b \in ReportBodies :
        /\ Len(reports) < MaxReports
        /\ Report("create_report", [id |-> 0, body |-> b],
                  create_custom_report(b, reports, now))

UpdateCustomReport ==
    \E id \in 1..(MaxReports + 1), b \in ReportBodies :
        Report("update_report", [id |-> id, body |-> b],
               update_custom_report(id, b, reports, now))

RunCustomReport ==
    \E id \in 1..(MaxReports + 1) :
        /\ id \in 1..Len(reports) =>
               reports[id].execution_count < MaxExecutions
        /\ Report("run_report", [id |-> id],
                  run_custom_report(id, reports, now))

InitReports ==
    /\ table = <<>>
    /\ now \in NowDates
    /\ reports = <<>>
    /\ Idle

NextReports ==
    \/ CreateCustomReport
    \/ UpdateCustomReport
    \/ RunCustomReport
    \/ Respond

SpecReports == InitReports /\ [][NextReports]_vars

-----------------------------------------------------------------------------
(* Exports and downloads served side by side.  Flask serves each request   *)
(* on a thread of its own; the threads share the temporary directory.      *)

\* the threads of the server
Threads == {"t1", "t2"}

\* the values uuid4 can give
Uuids == {<<"u">> \o Dec(i) : i \in 1..MaxExports}

\* a file of the temporary directory that no export wrote
OtherName == <<"n", "o", "t", "e", "s">>
OtherFile == [name |-> OtherName, rows |-> <<"line">>]

\* the names a download asks for: the names an export can give, the name of
\* the other file and a name of no file
DownloadNames ==
    {ExportName(u, x) : u \in Uuids, x \in {Csv, Pdf}}
    \cup {OtherName, <<"n", "o", "n", "e">>}

\* a thread that serves nothing
Waiting ==
    [resp |-> ErrorResponse(0), name |-> <<>>, body |-> Absent,
     pc |-> "idle"]

\* the values uuid4 gave to the exports in progress and to those that wrote
\* their file
Drawn ==
    {u \in Uuids :
        \/ \E t \in Threads : calls[t].pc = "write" /\ calls[t].name = u
        \/ \E x \in {Csv, Pdf} : ExportName(u, x) \in Names(files)}

\* export_data up to file_id = str(uuid.uuid4()): the body is read and
\* tested, and a value no earlier call drew is drawn
ExportBegin(t) ==
    \E b \in ExportBodies, u \in Uuids \ Drawn :
        /\ calls[t].pc = "idle"
        /\ calls' =
             [calls EXCEPT ![t] =
                 IF export_data(b, u).files = <<>>
                 THEN [resp |-> export_data(b, u).resp, name |-> <<>>, body |-> Absent,
                       pc |-> "done"]
                 ELSE [resp |-> ErrorResponse(0), name |-> u, body |-> b,
                       pc |-> "write"]]
        /\ UNCHANGED <<table, now, req, stmts, resp, files, reports,
                       schedules>>

\* export_data from the writing of the file to its response
ExportWrite(t) ==
    /\ calls[t].pc = "write"
    /\ LET out == export_data(calls[t].body, calls[t].name)
       IN  /\ files' = files \o out.files
           /\ calls' = [calls EXCEPT ![t] =
                           [resp |-> out.resp, name |-> out.resp.data,
                            body |-> calls[t].body, pc |-> "exported"]]
    /\ UNCHANGED <<table, now, req, stmts, resp, reports, schedules>>

\* the client of an export follows the download_url of its response
FollowDownloadUrl(t) ==
    /\ calls[t].pc = "exported"
    /\ calls' = [calls EXCEPT ![t].pc = "followed",
                              ![t].resp = download_file(calls[t].name, files)]
    /\ UNCHANGED <<table, now, req, stmts, resp, files, reports, schedules>>

\* GET /api/download/<filename> of any name
DownloadFile(t) ==
    \E n \in DownloadNames :
        /\ calls[t].pc = "idle"
        /\ calls' = [calls EXCEPT ![t] =
                        [resp |-> download_file(n, files), name |-> n, body |-> Absent,
                         pc |-> "downloaded"]]
        /\ UNCHANGED <<table, now, req, stmts, resp, files, reports,
                       schedules>>

\* the response of a thread is delivered
Return(t) ==
    /\ calls[t].pc \in {"done", "followed", "downloaded"}
    /\ calls' = [calls EXCEPT ![t] = Waiting]
    /\ UNCHANGED <<table, now, req, stmts, resp, files, reports, schedules>>

InitExport ==
    /\ table = <<>>
    /\ now \in NowDates
    /\ reports = <<>>
    /\ schedules = <<>>
    /\ req = NoRequest
    /\ stmts = <<>>
    /\ resp = ErrorResponse(0)
    /\ files \in {<<>>, <<OtherFile>>}
    /\ calls = [t \in Threads |-> Waiting]

NextExport ==
    \E t \in Threads :
        \/ ExportBegin(t)
        \/ ExportWrite(t)
        \/ FollowDownloadUrl(t)
        \/ DownloadFile(t)
        \/ Return(t)

SpecExport == InitExport /\ [][NextExport]_vars

-----------------------------------------------------------------------------
(* Properties of the exports *)

\* the names of the files the exports wrote
Exported == Names(files) \ {OtherName}

\* C21: under any interleaving of exports, no two writes of the directory
\* have the same name (no two exports write the same file); the download of
\* the download_url an export returned gives the rows of that export; the
\* download of a name no export produced is answered 404.
C21_FreshFileIdentity ==
    /\ \A i, j \in 1..Len(files) : i # j => files[i].name # files[j].name
    /\ \A t \in Threads :
           /\ calls[t].pc = "followed" =>
                  calls[t].resp = FileResponse(calls[t].body.data)
           /\ (calls[t].pc = "downloaded" /\ calls[t].name \notin Exported) =>
                  calls[t].resp.status = 404

-----------------------------------------------------------------------------
(* Connections.  Every method of DatabaseManager that executes a statement *)
(* opens a connection of its own with psycopg2.connect and closes it in    *)
(* its finally; a handler calls the method once for each statement.        *)

\* the statements a handler executes when none fails: the rows of one
\* shipper, a listing (count and data), the run of a custom report (select,
\* the report's statement, the update of execution_count)
StatementsOf ==
    [run_custom_report |-> 3, by_shipper |-> 1, list |-> 2]

\* a thread that serves nothing and holds no connection
Unconnected ==
    [ep |-> "none", pc |-> "idle", left |-> 0, acquired |-> 0, open |-> {}]

\* a request of one of the handlers arrives
Accept(t) ==
    \E ep \in DOMAIN StatementsOf :
        /\ calls[t].pc = "idle"
        /\ calls' = [calls EXCEPT ![t] =
                        [ep |-> ep, pc |-> "connect",
                         left |-> StatementsOf[ep], acquired |-> 0,
                         open |-> {}]]
        /\ UNCHANGED <<table, now, req, stmts, resp, files, reports,
                       schedules>>

\* conn = self.get_connection(): psycopg2.connect gives a new connection or
\* raises, and then the handler's except answers
get_connection(t) ==
    \E ok \in BOOLEAN :
        /\ calls[t].pc = "connect"
        /\ calls' =
             [calls EXCEPT ![t] =
                 IF ok
                 THEN [calls[t] EXCEPT
                          !.pc = "cursor",
                          !.acquired = @ + 1,
                          !.open = @ \cup {<<t, calls[t].acquired + 1>>}]
                 ELSE [calls[t] EXCEPT !.pc = "done"]]
        /\ UNCHANGED <<table, now, req, stmts, resp, files, reports,
                       schedules>>

\* cursor = conn.cursor(...): the line stands before the try, so that when it
\* raises nothing closes the connection
Cursor(t) ==
    \E ok \in BOOLEAN :
        /\ calls[t].pc = "cursor"
        /\ calls' = [calls EXCEPT ![t].pc = IF ok THEN "execute" ELSE "done"]
        /\ UNCHANGED <<table, now, req, stmts, resp, files, reports,
                       schedules>>

\* try: cursor.execute(...) finally: cursor.close(); conn.close().  The
\* connection of the call is closed whether the statement raises or not;
\* the handler goes on to its next statement, or answers.
Execute(t) ==
    \E ok \in BOOLEAN :
        /\ calls[t].pc = "execute"
        /\ calls' =
             [calls EXCEPT ![t] =
                 [calls[t] EXCEPT
                     !.pc = IF ok /\ calls[t].left > 1
                            THEN "connect" ELSE "done",
                     !.left = IF ok THEN @ - 1 ELSE @,
                     !.open = @ \ {<<t, calls[t].acquired>>}]]
        /\ UNCHANGED <<table, now, req, stmts, resp, files, reports,
                       schedules>>

\* the response is delivered and the thread serves the next request
Complete(t) ==
    /\ calls[t].pc = "done"
    /\ calls' = [calls EXCEPT ![t] = Unconnected]
    /\ UNCHANGED <<table, now, req, stmts, resp, files, reports, schedules>>

InitConnections ==
    /\ table = <<>>
    /\ now \in NowDates
    /\ reports = <<>>
    /\ schedules = <<>>
    /\ req = NoRequest
    /\ stmts = <<>>
    /\ resp = ErrorResponse(0)
    /\ files = <<>>
    /\ calls = [t \in Threads |-> Unconnected]

NextConnections ==
    \E t \in Threads :
        \/ Accept(t)
        \/ get_connection(t)
        \/ Cursor(t)
        \/ Execute(t)
        \/ Complete(t)

SpecConnections == InitConnections /\ [][NextConnections]_vars

-----------------------------------------------------------------------------
(* Properties of the connections *)

\* C22: a request that has completed, with or without an exception at any
\* step, acquired one connection and no more (none when the database refused
\* it) and has left none of its connections open; no connection is open in
\* two requests.
C22_OneConnectionLifetime ==
    /\ \A t \in Threads :
           calls[t].pc = "done" =>
               calls[t].acquired <= 1 /\ calls[t].open = {}
    /\ \A t, u \in Threads :
           t # u => calls[t].open \cap calls[u].open = {}

-----------------------------------------------------------------------------
(* A listing served while another client writes to shipments.  The count   *)
(* statement and the data statement are two calls of execute_query, each   *)
(* on a connection and in a transaction of its own: the table may change   *)
(* between them.                                                           *)

\* the thread that serves the listings
Readers == {"t1"}

\* a thread that serves no request which reads the database twice
Unread ==
    [resp |-> ErrorResponse(0), args |-> <<>>, pc |-> "idle", seen |-> 0]

\* list requests of every page and page size, with no date filter
PagedArgs ==
    {[page |-> Dec(p), limit |-> Dec(l), date_filter |-> None,
      start_date |-> None, end_date |-> None] :
        p \in 1..MaxPage, l \in 1..MaxPage}

\* get_all_shipments up to its count statement: seen is the total it read
CountShipments(t) ==
    \E a \in PagedArgs, nd \in EngineChoices :
        /\ calls[t].pc = "idle"
        /\ LET out == get_all_shipments(a, table, now, nd)
           IN  calls' = [calls EXCEPT ![t] =
                           [resp |-> ErrorResponse(0), args |-> a,
                            pc |-> "data",
                            seen |-> ExecCount(out.stmts[1], table, nd)]]
        /\ UNCHANGED <<table, now, req, stmts, resp, files, reports,
                       schedules>>

\* get_all_shipments from its data statement on: the rows are those of the
\* table as it is now, the pagination block is made of the total read before
PageShipments(t) ==
    \E nd \in EngineChoices :
        /\ calls[t].pc = "data"
        /\ LET a   == calls[t].args
               out == get_all_shipments(a, table, now, nd)
           IN  calls' = [calls EXCEPT ![t].pc = "done",
                                      ![t].resp =
                            ListingResponse(out.resp.data, IntOf(a.page),
                                            IntOf(a.limit), calls[t].seen)]
        /\ UNCHANGED <<table, now, req, stmts, resp, files, reports,
                       schedules>>

\* the response is delivered
Answer(t) ==
    /\ calls[t].pc = "done"
    /\ calls' = [calls EXCEPT ![t] = Unread]
    /\ UNCHANGED <<table, now, req, stmts, resp, files, reports, schedules>>

\* another client of the database inserts a row with the next id
InsertShipment ==
    \E k \in RowKinds :
        /\ Len(table) < MaxRows
        /\ \A i \in 1..Len(table) : table[i].id < MaxRows
        /\ table' = Append(table,
                           Row(IF table = <<>> THEN 1
                               ELSE table[Len(table)].id + 1, k))
        /\ UNCHANGED <<now, req, stmts, resp, files, reports, schedules,
                       calls>>

\* another client of the database deletes a row
DeleteShipment ==
    \E i \in 1..Len(table) :
        /\ table' = SubSeq(table, 1, i - 1) \o SubSeq(table, i + 1, Len(table))
        /\ UNCHANGED <<now, req, stmts, resp, files, reports, schedules,
                       calls>>

InitWriters ==
    /\ table \in Tables
    /\ now \in NowDates
    /\ reports = <<>>
    /\ schedules = <<>>
    /\ req = NoRequest
    /\ stmts = <<>>
    /\ resp = ErrorResponse(0)
    /\ files = <<>>
    /\ calls = [t \in Readers |-> Unread]

NextWriters ==
    \/ \E t \in Readers : CountShipments(t) \/ PageShipments(t) \/ Answer(t)
    \/ InsertShipment
    \/ DeleteShipment

SpecWriters == InitWriters /\ [][NextWriters]_vars

-----------------------------------------------------------------------------
(* Custom reports run side by side.  run_custom_report reads the row of    *)
(* the report, executes the report's statement and then counts the run,    *)
(* each in a call and a transaction of its own.                            *)

\* the rows of custom_reports at the start: a report whose statement the
\* database executes and one whose statement it rejects
RunnableRows ==
    {ReportRow(ReportBody({"report_name", "sql_query"}, q, NoFilters, <<>>),
               Date(2024, 1, 6), 0) : q \in {SelectAll, NoSql}}

\* GET /api/custom-reports/<id>, and run_custom_report up to the test of the
\* row it selected: 404 when there is none
ReadReport(t) ==
    \E ep \in {"get", "run"}, id \in 1..(MaxReports + 1) :
        /\ calls[t].pc = "idle"
        /\ (ep = "run" /\ id \in 1..Len(reports)) =>
               reports[id].execution_count < MaxExecutions
        /\ calls' =
             [calls EXCEPT ![t] =
                 IF id \notin 1..Len(reports)
                 THEN [resp |-> ErrorResponse(404), args |-> [id |-> id, ep |-> ep],
                       pc |-> "done", seen |-> 0]
                 ELSE IF ep = "get"
                 THEN [resp |-> ReportResponse(200, {"success", "data"}), args |-> [id |-> id, ep |-> ep],
                       pc |-> "done",
                       seen |-> 0]
                 ELSE [resp |-> ErrorResponse(0), args |-> [id |-> id, ep |-> ep],
                       pc |-> "execute", seen |-> reports[id]]]
        /\ UNCHANGED <<table, now, req, stmts, resp, files, reports,
                       schedules>>

\* run_custom_report at the report's statement: the stored text, or the one
\* derived from the stored filters; a statement the database rejects raises
\* and the handler's except answers 500
ExecuteReport(t) ==
    /\ calls[t].pc = "execute"
    /\ LET row  == calls[t].seen
           text == IF row.sql_query # <<>> THEN row.sql_query
                   ELSE build_sql_query_from_filters(row.filters, row.columns,
                                                     now)
       IN  calls' = [calls EXCEPT ![t].pc = IF Rejected(text) THEN "done"
                                            ELSE "update",
                                  ![t].resp = IF Rejected(text)
                                              THEN ErrorResponse(500)
                                              ELSE ErrorResponse(0)]
    /\ UNCHANGED <<table, now, req, stmts, resp, files, reports, schedules>>

\* the count of a run taken from the row the handler read at its start
CountedFromRead(row, seen) == seen.execution_count + 1

\* SET execution_count = execution_count + 1: the database computes the new
\* count from the row as it is when the UPDATE executes
Counted(row, seen) == row.execution_count + 1

\* run_custom_report from its UPDATE to its response
CountRun(t) ==
    /\ calls[t].pc = "update"
    /\ reports' = [reports EXCEPT ![calls[t].args.id].execution_count =
                      Counted(reports[calls[t].args.id], calls[t].seen)]
    /\ calls' = [calls EXCEPT ![t].pc = "done",
                              ![t].resp =
                                  ReportResponse(200, {"success", "data",
                                                       "count",
                                                       "report_config"})]
    /\ UNCHANGED <<table, now, req, stmts, resp, files, schedules>>

InitRuns ==
    /\ table = <<>>
    /\ now \in NowDates
    /\ reports \in UNION {[1..n -> RunnableRows] : n \in 0..MaxReports}
    /\ schedules = <<>>
    /\ req = NoRequest
    /\ stmts = <<>>
    /\ resp = ErrorResponse(0)
    /\ files = <<>>
    /\ calls = [t \in Threads |-> Unread]

NextRuns ==
    \E t \in Threads :
        \/ ReadReport(t)
        \/ ExecuteReport(t)
        \/ CountRun(t)
        \/ Answer(t)

SpecRuns == InitRuns /\ [][NextRuns]_vars

-----------------------------------------------------------------------------
(* Scheduled reports.  A row of scheduled_reports is its schedule_name and *)
(* its is_active; `deleted` is no column of the table: it records that a   *)
(* DELETE request was answered for the row.                                *)

ScheduleRow(name) ==
    [schedule_name |-> name, is_active |-> TRUE, deleted |-> FALSE]

ScheduleResponse(keys, data) ==
    [ReportResponse(200, keys) EXCEPT !.data = data]

\* the ids of the rows, in ascending order, that a condition keeps
RECURSIVE ActiveIds(_, _)
ActiveIds(rows, n) ==
    IF n = 0 THEN <<>>
    ELSE ActiveIds(rows, n - 1) \o (IF rows[n].is_active THEN <<n>> ELSE <<>>)

\* GET /api/scheduled-reports: the rows WHERE sr.is_active = true
get_scheduled_reports(rows) ==
    [stmts |-> <<ReportStmt(<<Code("SELECT sr.* FROM scheduled_reports sr WHERE sr.is_active = true")>>,
                            <<>>, "execute_query")>>,
     resp |-> ScheduleResponse({"success", "data"},
                               ActiveIds(rows, Len(rows))),
     schedules |-> rows]

\* POST /api/scheduled-reports: is_active takes the column's default, TRUE
create_scheduled_report(b, rows) ==
    IF ~({"report_id", "schedule_name"} \subseteq b.has)
    THEN [stmts |-> <<>>, resp |-> ErrorResponse(400), schedules |-> rows]
    ELSE [stmts |-> <<ReportStmt(<<Code("INSERT INTO scheduled_reports VALUES"),
                                   Placeholder, Placeholder, Placeholder,
                                   Placeholder, Placeholder, Placeholder,
                                   Placeholder, Placeholder, Placeholder,
                                   Code("RETURNING id")>>,
                                 <<"report_id", "schedule_name",
                                   "schedule_type", "schedule_time",
                                   "schedule_days", "email_recipients",
                                   "email_subject", "email_body", "user_id">>,
                                 "execute_insert")>>,
          resp |-> ScheduleResponse({"success", "id", "message"}, <<>>),
          schedules |-> Append(rows, ScheduleRow(b.schedule_name))]

\* an UPDATE of scheduled_reports WHERE id = %s: no row, no change
SetSchedule(rows, id, name, active, deleted) ==
    IF id \in 1..Len(rows)
    THEN [rows EXCEPT ![id] = [schedule_name |-> name, is_active |-> active,
                               deleted |-> deleted]]
    ELSE rows

\* PUT /api/scheduled-reports/<id>: the name and the other settings, not
\* is_active
update_scheduled_report(id, b, rows) ==
    IF "schedule_name" \notin b.has
    THEN [stmts |-> <<>>, resp |-> ErrorResponse(400), schedules |-> rows]
    ELSE [stmts |-> <<ReportStmt(<<Code("UPDATE scheduled_reports SET schedule_name ="),
                                   Placeholder, Code("schedule_type ="),
                                   Placeholder, Code("schedule_time ="),
                                   Placeholder, Code("schedule_days ="),
                                   Placeholder, Code("email_recipients ="),
                                   Placeholder, Code("email_subject ="),
                                   Placeholder, Code("email_body ="),
                                   Placeholder, Code("WHERE id ="),
                                   Placeholder>>,
                                 <<"schedule_name", "schedule_type",
                                   "schedule_time", "schedule_days",
                                   "email_recipients", "email_subject",
                                   "email_body", "schedule_id">>,
                                 "execute_insert")>>,
          resp |-> ScheduleResponse({"success", "message"}, <<>>),
          schedules |-> IF id \in 1..Len(rows)
                        THEN SetSchedule(rows, id, b.schedule_name,
                                         rows[id].is_active, rows[id].deleted)
                        ELSE rows]

\* UPDATE scheduled_reports SET is_active = %s ... WHERE id = %s
SetActive ==
    ReportStmt(<<Code("UPDATE scheduled_reports SET is_active ="), Placeholder,
                 Code("WHERE id ="), Placeholder>>,
               <<"is_active", "schedule_id">>, "execute_insert")

\* DELETE /api/scheduled-reports/<id>: the row stays, with is_active false
delete_scheduled_report(id, rows) ==
    [stmts |-> <<ReportStmt(<<Code("UPDATE scheduled_reports SET is_active = false WHERE id ="),
                              Placeholder>>,
                            <<"schedule_id">>, "execute_insert")>>,
     resp |-> ScheduleResponse({"success", "message"}, <<>>),
     schedules |-> IF id \in 1..Len(rows)
                   THEN SetSchedule(rows, id, rows[id].schedule_name, FALSE,
                                    TRUE)
                   ELSE rows]

\* PUT /api/scheduled-reports/<id>/toggle: is_active of the body, TRUE when
\* the body has none, written to the row whatever the row is
toggle_scheduled_report(id, b, rows) ==
    [stmts |-> <<SetActive>>,
     resp |-> ScheduleResponse({"success", "message"}, <<>>),
     schedules |-> IF id \in 1..Len(rows)
                   THEN SetSchedule(rows, id, rows[id].schedule_name,
                                    IF "is_active" \in b.has THEN b.is_active
                                    ELSE TRUE,
                                    rows[id].deleted)
                   ELSE rows]

\* bodies of the requests on schedules
ScheduleBodies ==
    {[has |-> h, schedule_name |-> n, is_active |-> TRUE] :
        h \in {{}, {"schedule_name"}, {"report_id", "schedule_name"}},
        n \in {<<"daily">>, <<"weekly">>}}

ToggleBodies ==
    {[has |-> h, schedule_name |-> <<>>, is_active |-> v] :
        h \in {{}, {"is_active"}}, v \in BOOLEAN}

Schedule(ep, a, out) ==
    /\ req = NoRequest
    /\ req' = [ep |-> ep, args |-> a]
    /\ stmts' = out.stmts
    /\ resp' = out.resp
    /\ schedules' = out.schedules
    /\ UNCHANGED <<table, now, files, reports, calls>>

GetScheduledReports ==
    Schedule("get_schedules", [id |-> 0], get_scheduled_reports(schedules))

CreateScheduledReport ==
    \E b \in ScheduleBodies :
        /\ Len(schedules) < MaxSchedules
        /\ Schedule("create_schedule", [id |-> 0, body |-> b],
                    create_scheduled_report(b, schedules))

UpdateScheduledReport ==
    \E id \in 1..(MaxSchedules + 1), b \in ScheduleBodies :
        Schedule("update_schedule", [id |-> id, body |-> b],
                 update_scheduled_report(id, b, schedules))

DeleteScheduledReport ==
    \E id \in 1..(MaxSchedules + 1) :
        Schedule("delete_schedule", [id |-> id],
                 delete_scheduled_report(id, schedules))

ToggleScheduledReport ==
    \E id \in 1..(MaxSchedules + 1), b \in ToggleBodies :
        Schedule("toggle_schedule", [id |-> id, body |-> b],
                 toggle_scheduled_report(id, b, schedules))

InitSchedules ==
    /\ table = <<>>
    /\ now \in NowDates
    /\ reports = <<>>
    /\ Idle

NextSchedules ==
    \/ GetScheduledReports
    \/ CreateScheduledReport
    \/ UpdateScheduledReport
    \/ DeleteScheduledReport
    \/ ToggleScheduledReport
    \/ Respond

SpecSchedules == InitSchedules /\ [][NextSchedules]_vars

-----------------------------------------------------------------------------
(* Properties of the listing handlers *)

ListingEndpoints == {"list", "filter", "search", "advanced"}

\* the page and the page size the request being served asks for
DefaultLimit == IF req.ep = "list" THEN 10 ELSE 20
ReqPage  == IntOf(ArgOr(req.args.page, 1))
ReqLimit == IntOf(ArgOr(req.args.limit, DefaultLimit))

\* a listing handler has answered with a page
Listed == req.ep \in ListingEndpoints /\ resp.kind = "listing"

Min(a, b) == IF a < b THEN a ELSE b
Max(a, b) == IF a > b THEN a ELSE b

\* the rows of the table a set of conditions keeps, by id
RowsWhere(P(_)) == {table[i].id : i \in {j \in 1..Len(table) : P(table[j])}}

Range(seq) == {seq[i] : i \in 1..Len(seq)}

\* C1: in every paginated listing response with total >= 0, limit >= 1 and
\* page >= 1, the block echoes the page and the limit of the request,
\* total_pages is the least number of pages of `limit` rows that hold `total`
\* rows (ceil(total / limit)), has_next is true exactly when
\* page < total_pages and has_prev exactly when page > 1.
C1_PaginationArithmetic ==
    Listed =>
        LET p == resp.pagination
        IN  (p.total >= 0 /\ p.limit >= 1 /\ p.page >= 1) =>
                /\ p.page = ReqPage /\ p.limit = ReqLimit
                /\ p.total_pages * p.limit >= p.total
                /\ (p.total_pages - 1) * p.limit < p.total
                /\ p.has_next = (p.page < p.total_pages)
                /\ p.has_prev = (p.page > 1)

\* a listing whose total is no multiple of the limit, on a page that has a
\* predecessor
C1_Witness ==
    /\ Listed
    /\ resp.pagination.total = 1 /\ resp.pagination.limit = 2
    /\ resp.pagination.page = 2 /\ resp.pagination.total_pages = 1
    /\ resp.pagination.has_prev /\ ~resp.pagination.has_next

\* C2: a listing handler hands the database a count statement and a data
\* statement with the same WHERE clause and the same predicate parameters,
\* the data statement adding only limit and (page - 1) * limit; the page
\* holds min(limit, max(0, total - (page - 1) * limit)) distinct rows, never
\* more than the total reported.
C2_CountAndDataAgree ==
    (req.ep \in ListingEndpoints /\ Len(stmts) = 2) =>
        /\ stmts[1].kind = "count" /\ stmts[2].kind = "select"
        /\ stmts[1].where = stmts[2].where
        /\ stmts[2].params =
               stmts[1].params
                   \o <<PInt(ReqLimit), PInt((ReqPage - 1) * ReqLimit)>>
        /\ Listed =>
               LET p == resp.pagination
               IN  /\ Len(resp.data) =
                          Min(p.limit, Max(0, p.total - (p.page - 1) * p.limit))
                   /\ Cardinality(Range(resp.data)) = Len(resp.data)
                   /\ Len(resp.data) <= p.total

\* the second page of one row, of two matching rows
C2_Witness ==
    /\ Listed /\ Len(stmts) = 2
    /\ resp.pagination.page = 2 /\ resp.pagination.limit = 1
    /\ resp.pagination.total = 2 /\ Len(resp.data) = 1
    /\ stmts[1].where # <<>>

\* the request parameters that carry values
ValueFields ==
    AdvArgNames \cup {"page", "limit", "query", "value", "date_filter",
                      "start_date", "end_date"}

\* the tokens of the texts of the statements handed to the database
TextTokens == UNION {Range(SqlText(stmts[i])) : i \in 1..Len(stmts)}

\* the parameters bound to the statements handed to the database
BoundParams == UNION {Range(stmts[i].params) : i \in 1..Len(stmts)}

\* C3: no token of the text of a statement handed to the database comes from
\* a value of the request; the value a filter, a search or an advanced search
\* compares with is among the bound parameters.
C3_ValuesAreBound ==
    /\ \A tok \in TextTokens : tok.src \notin ValueFields
    /\ (req.ep = "filter" /\ stmts # <<>>) =>
           PText(<<"%">> \o req.args.value \o <<"%">>) \in BoundParams
    /\ (req.ep = "search" /\ stmts # <<>>) =>
           PText(Trim(req.args.query)) \in BoundParams
    /\ (req.ep = "advanced" /\ stmts # <<>>
            /\ req.args.shipper_name \notin {None, <<>>}) =>
           PText(<<"%">> \o req.args.shipper_name \o <<"%">>) \in BoundParams

\* an advanced search by shipper name and creation date has reached the
\* database
C3_Witness ==
    /\ req.ep = "advanced" /\ Len(stmts) = 2
    /\ req.args.shipper_name = Acme
    /\ req.args.creation_date_from = Pad(20240105, 8)
    /\ Len(stmts[1].params) = 2

\* C4: every column name a request puts into the text of a statement is a
\* column of the allow-list (the columns of the shipments table).
C4_ColumnsFromAllowList ==
    \A tok \in TextTokens :
        tok.src = "column" => tok.v \in {<<c>> : c \in Columns}

-----------------------------------------------------------------------------
(* Properties of the value normalizers *)

IsRangeText(s) == s # None /\ Len(s) = 8 /\ AllDigits(s)

\* C5: parse_date_filter gives two texts of 8 digits, the first no greater
\* than the second, for today, week, month, year and every literal date that
\* parses; and <<None, None>> for total, for a missing or empty text and for
\* a text that does not parse.
C5_EightDigitRanges ==
    req.ep = "parse_date_filter" =>
        LET s == req.args
            r == resp.data
        IN  /\ (s \in {Today, Week, Month, Year} \/ (Truthy(s) /\ Parses(s))) =>
                   /\ IsRangeText(r[1]) /\ IsRangeText(r[2])
                   /\ LexLeq(r[1], r[2])
            /\ (~Truthy(s) \/ s = Total
                    \/ (~Parses(s)
                          /\ Lower(s) \notin {Today, Week, Month, Year})) =>
                   r = <<None, None>>

\* the day after a date of the calendar: [y, m, d]
NextDay(dt) ==
    IF dt.d < DaysInMonth(dt.y, dt.m) THEN Date(dt.y, dt.m, dt.d + 1)
    ELSE IF dt.m < 12 THEN Date(dt.y, dt.m + 1, 1)
    ELSE Date(dt.y + 1, 1, 1)

\* YYYYMMDD of a date
Ymd(dt) == Pad(dt.y * 10000 + dt.m * 100 + dt.d, 8)

\* a listing filtered by a literal date and by nothing else about dates
FilteredByLiteralDate ==
    /\ req.ep = "list" /\ resp.kind = "listing"
    /\ Truthy(req.args.date_filter) /\ Parses(req.args.date_filter)
    /\ req.args.start_date = None /\ req.args.end_date = None

\* C6: a listing filtered with the literal date D counts the rows created on
\* D and returns no row created on the day after D.
C6_OneDayWindow ==
    FilteredByLiteralDate =>
        LET D == IsoDate(req.args.date_filter)
        IN  /\ resp.pagination.total =
                   Cardinality(RowsWhere(LAMBDA r : DateSql(r.date) = Ymd(D)))
            /\ \A i \in 1..Len(table) :
                   DateSql(table[i].date) = Ymd(NextDay(D)) =>
                       table[i].id \notin Range(resp.data)

NumericExtractions == {"get_weight_parsing_sql", "get_cod_parsing_sql"}

\* C7: on a text that is not NULL, the weight and COD expressions never raise,
\* and give NULL when the text is empty or has no digit.
C7_ExtractionNeverRaises ==
    (req.ep \in NumericExtractions /\ req.args # NULL) =>
        /\ resp.data.st # "error"
        /\ (req.args = <<>> \/ DigitCount(req.args) = 0) =>
               resp.data.st = "null"

\* the digits of a text after its first point
FractionDigits(s) ==
    Cardinality({i \in 1..Len(s) :
                    IsDigit(s[i]) /\ \E j \in 1..(i - 1) : s[j] = "."})

\* an advanced search by min_weight alone, on the default page
ByMinWeight ==
    /\ req.ep = "advanced" /\ resp.kind = "listing"
    /\ req.args = [AdvNoArgs EXCEPT !["min_weight"] = req.args.min_weight]
    /\ Float(req.args.min_weight).st = "ok"

\* C8: on a text with at least one digit and at most one point, the weight
\* expression gives the number written by the digits of the text, the digits
\* after the point being its decimals; an advanced search by min_weight = m
\* returns the rows whose weight, so read, is at least m, and no row whose
\* weight is NULL or empty.
C8_ExtractedWeight ==
    /\ (req.ep = "get_weight_parsing_sql" /\ req.args # NULL
            /\ DigitCount(req.args) >= 1 /\ PointCount(req.args) <= 1) =>
           /\ resp.data.st = "ok"
           /\ resp.data.n * Pow10(FractionDigits(req.args)) =
                  DigitsVal(SelectSeq(req.args, IsDigit)) * Pow10(resp.data.s)
    /\ ByMinWeight =>
           LET m == Float(req.args.min_weight)
               heavy(r) ==
                   /\ r.weight # NULL /\ r.weight # <<>>
                   /\ DigitsVal(SelectSeq(r.weight, IsDigit)) * Pow10(m.s)
                          >= m.n * Pow10(FractionDigits(r.weight))
           IN  Range(resp.data) = RowsWhere(heavy)

\* min_weight = 5 on a table of a "3 Kg" row and a "7.2 Kg" row returns the
\* second row alone
C8_Witness ==
    /\ ByMinWeight /\ req.args.min_weight = <<"5">>
    /\ Len(table) = 2
    /\ table[1].weight = <<"3", " ", "K", "g">>
    /\ table[2].weight = <<"7", ".", "2", " ", "K", "g">>
    /\ resp.data = <<2>>

\* a value written DD-Mon-YY with a month of the calendar
IsLegacyDate(v) ==
    /\ v # NULL /\ Len(v) = 9 /\ v[3] = "-" /\ v[7] = "-"
    /\ AllDigits(SubSeq(v, 1, 2)) /\ AllDigits(SubSeq(v, 8, 9))
    /\ \E m \in 1..12 : MonthNames[m] = SubSeq(v, 4, 6)

MonthOf(v) == CHOOSE m \in 1..12 : MonthNames[m] = SubSeq(v, 4, 6)

\* the day a DD-Mon-YY value names, as the number 20YYMMDD
DayNumber(v) ==
    (2000 + DigitsVal(SubSeq(v, 8, 9))) * 10000 + MonthOf(v) * 100
        + DigitsVal(SubSeq(v, 1, 2))

MatchesPattern(v) == v # NULL /\ Len(v) = 9 /\ v[3] = "-" /\ v[7] = "-"

\* C9: the date expression maps a DD-Mon-YY value to the 8 characters
\* "20" YY MM DD, leaves a value that does not match the 9-character pattern
\* as it is, and maps the earlier of two DD-Mon-YY dates to the smaller text.
C9_LegacyDateExpression ==
    req.ep = "get_date_filter_sql" =>
        /\ \A k \in 1..2 :
               LET v == req.args[k]
                   r == resp.data[k]
               IN  /\ IsLegacyDate(v) => r = Pad(DayNumber(v), 8)
                   /\ ~MatchesPattern(v) => r = v
        /\ (IsLegacyDate(req.args[1]) /\ IsLegacyDate(req.args[2])
                /\ DayNumber(req.args[1]) < DayNumber(req.args[2])) =>
               LexLess(resp.data[1], resp.data[2])

\* the last day of a year and the first day of the next
C9_Witness ==
    /\ req.ep = "get_date_filter_sql"
    /\ req.args[1] = <<"3", "1", "-", "D", "e", "c", "-", "2", "3">>
    /\ req.args[2] = <<"0", "1", "-", "J", "a", "n", "-", "2", "4">>
    /\ resp.data[1] = Pad(20231231, 8)
    /\ LexLess(resp.data[1], resp.data[2])

-----------------------------------------------------------------------------
(* Properties of the date constraints *)

DatedEndpoints ==
    {"list", "top_customers", "top_cities", "average_weight", "total"}

\* the creation date, raw or normalized, in a WHERE clause
CreationDate == {Code("date_sql"), Code("shipment_creation_date")}

\* the statement keeps the rows from `from` to `to`: its first two
\* parameters are the two ends, bound to >= and <= on the creation date
ConstrainedTo(st, from, to) ==
    /\ Len(st.params) >= 2
    /\ st.params[1] = PText(from) /\ st.params[2] = PText(to)
    /\ \E i, j \in 1..Len(st.where) :
          /\ i < j
          /\ st.where[i].lhs \in CreationDate /\ st.where[i].op = ">="
          /\ st.where[j].lhs \in CreationDate /\ st.where[j].op = "<="
          /\ st.where[i].rhs = Placeholder /\ st.where[j].rhs = Placeholder

\* C10: when a request gives date_filter together with start_date and
\* end_date, the statement whose result the endpoint returns is constrained
\* to start_date .. end_date.
C10_ExplicitRangeWins ==
    (req.ep \in DatedEndpoints /\ stmts # <<>>
        /\ Truthy(req.args.date_filter)
        /\ Truthy(req.args.start_date) /\ Truthy(req.args.end_date)) =>
        ConstrainedTo(stmts[Len(stmts)],
                      SelectSeq(req.args.start_date, LAMBDA c : c # "-"),
                      SelectSeq(req.args.end_date, LAMBDA c : c # "-"))

-----------------------------------------------------------------------------
(* Properties of the sampled aggregates *)

SampledEndpoints == {"top_customers", "top_cities", "average_weight", "total"}

\* the row cap of a time bucket
BucketCap(bucket) ==
    CASE bucket = Today -> 24000 [] bucket = Week -> 168000
      [] bucket = Month -> 720000 [] bucket = Year -> 8640000

\* C11: an aggregate endpoint called with date_filter today, week, month or
\* year reads, with every statement it executes, at most the rows of the
\* cap of the bucket (24000, 168000, 720000, 8640000) and aggregates no more.
C11_BucketCaps ==
    (req.ep \in SampledEndpoints
        /\ req.args.date_filter \in {Today, Week, Month, Year}) =>
        \A i \in 1..Len(stmts) :
            /\ RowsIn(resp.data[i].read) <= BucketCap(req.args.date_filter)
            /\ RowsIn(resp.data[i].aggregated)
                   <= BucketCap(req.args.date_filter)

\* the rows with the n highest ids of the table
MostRecent(n) == TopOfRuns(table, [i \in 1..Len(table) |-> TRUE], n)

\* C12: top customers and average weight called with no date_filter or with
\* total, and top cities called with total, aggregate only rows that are
\* among the 100000 rows of the table with the highest ids.
C12_FallbackWindow ==
    (/\ req.ep \in {"top_customers", "top_cities", "average_weight"}
     /\ \/ req.args.date_filter = Total
        \/ req.args.date_filter = None /\ req.ep # "top_cities") =>
        \A i \in 1..Len(stmts) : \A k \in 1..Len(table) :
            RowCount(resp.data[i].aggregated[k]) > 0 =>
                /\ RowCount(MostRecent(100000)[k]) > 0
                /\ resp.data[i].aggregated[k].lo >= MostRecent(100000)[k].lo


\* the keys by which a response body would say that its figures come from
\* a sample of the recent rows
SampleMarkers ==
    {"approximate", "approx", "sample", "sampled", "recent_sample",
     "sample_size", "estimated", "is_approximate"}

\* a statement that reads a sample of the table
IsSampled(st) == st.sample # NoSample

\* C13: every successful response of an aggregate endpoint computed from a
\* sample of the recent rows carries, in its body, a marker that the figures
\* are approximate.
C13_SampledResponsesLabelled ==
    (/\ req.ep \in SampledEndpoints
     /\ resp.status = 200
     /\ \E i \in 1..Len(stmts) : IsSampled(stmts[i])) =>
        resp.body \cap SampleMarkers # {}


-----------------------------------------------------------------------------
(* Properties of the advanced search *)

\* an advanced search whose only argument is arg, answered with a listing
OnlyArg(arg) ==
    /\ req.ep = "advanced" /\ resp.kind = "listing"
    /\ req.args = [AdvNoArgs EXCEPT ![arg] = req.args[arg]]

\* the COD of a row read as a number is positive, is zero
CodPositive(r) ==
    r.cod # NULL /\ r.cod # <<>> /\ DigitsVal(SelectSeq(r.cod, IsDigit)) > 0
CodZero(r) ==
    r.cod # NULL /\ r.cod # <<>> /\ DigitsVal(SelectSeq(r.cod, IsDigit)) = 0

WeightBounds == {"min_weight", "max_weight"}

\* the request carries a weight bound that float() rejects
UnparsedBound(b) ==
    /\ req.ep = "advanced"
    /\ Truthy(req.args[b]) /\ Float(req.args[b]).st = "error"

IntFields == {"id", "number_of_boxes"}

\* C17: an advanced search with an id or a number_of_boxes that is no integer
\* succeeds and executes the statements of the same request without that
\* field.
C17_NonNumericIdIgnored ==
    \A f \in IntFields :
        (req.ep = "advanced" /\ Truthy(req.args[f]) /\ ~IsInt(req.args[f])) =>
            /\ resp.status = 200
            /\ \E nd \in EngineChoices :
                   stmts = advanced_search([req.args EXCEPT ![f] = None],
                                           table, now, nd).stmts


-----------------------------------------------------------------------------
(* Properties of the page and the limit *)

\* the request with a page below 1 and a limit below 1 taken out, so that
\* the endpoint's defaults stand in their place
Defaulted(a) ==
    [a EXCEPT !.page = IF IsInt(@) /\ IntOf(@) < 1 THEN None ELSE @,
              !.limit = IF IsInt(@) /\ IntOf(@) < 1 THEN None ELSE @]

\* the outcome of a listing endpoint on a request
ListingOutcome(ep, a, nd) ==
    CASE ep = "list" -> get_all_shipments(a, table, now, nd)
      [] ep = "filter" -> filter_shipments(a, table, now, nd)
      [] ep = "search" -> search_shipments(a, table, now, nd)
      [] ep = "advanced" -> advanced_search(a, table, now, nd)

\* C18: a listing endpoint called with a page below 1 or a limit below 1
\* answers as it does with the defaults in their place: the offset of the
\* data statement is not negative and the response is the one of the request
\* with the default page and limit.
C18_PageAndLimitDefaulted ==
    (req.ep \in ListingEndpoints /\ req.args # Defaulted(req.args)) =>
        /\ \A i \in 1..Len(stmts) :
               stmts[i].paged => stmts[i].params[Len(stmts[i].params)].n >= 0
        /\ \E nd \in EngineChoices :
               LET out == ListingOutcome(req.ep, Defaulted(req.args), nd)
               IN  stmts = out.stmts /\ resp = out.resp


-----------------------------------------------------------------------------
(* Properties of failures *)

\* the statement raises whatever the engine chooses
Fails(st) == Raises(st, table, TRUE) /\ Raises(st, table, FALSE)

\* C19: a listing endpoint executes the count statement and the data
\* statement at most once each; when one of them raises, the response is the
\* error response, status 500 with the body {error} and neither rows nor
\* total; a listing response carries the rows of the data statement and the
\* total of the count statement, both having succeeded.
C19_AllOrError ==
    req.ep \in ListingEndpoints =>
        /\ Len(stmts) <= 2
        /\ \A i \in 1..Len(stmts) :
               stmts[i].kind = (IF i = 1 THEN "count" ELSE "select")
        /\ (\E i \in 1..Len(stmts) : Fails(stmts[i])) =>
               resp = ErrorResponse(500)
        /\ resp.status # 200 =>
               /\ resp.body = {"error"}
               /\ resp.data = <<>> /\ resp.pagination = NoPagination
        /\ resp.status = 200 =>
               /\ Len(stmts) = 2
               /\ {"data", "pagination"} \subseteq resp.body
               /\ \E nd \in EngineChoices :
                      /\ ~Raises(stmts[1], table, nd.eager)
                      /\ ~Raises(stmts[2], table, nd.eager)
                      /\ resp.data = ExecData(stmts[2], table, nd)
                      /\ resp.pagination.total = ExecCount(stmts[1], table, nd)

\* page = 0 on a table of two rows: the count succeeds, the data statement
\* raises on its negative offset, and the response is the error alone
C19_Witness ==
    /\ req.ep = "list" /\ req.args.page = <<"0">> /\ Len(table) = 2
    /\ Len(stmts) = 2
    /\ ~Raises(stmts[1], table, TRUE) /\ Fails(stmts[2])
    /\ resp = ErrorResponse(500)


-----------------------------------------------------------------------------
(* Properties of the required parameters *)

\* the request lacks a parameter its endpoint requires
LacksRequired ==
    CASE req.ep = "search" ->
             req.args.query = None \/ Trim(req.args.query) = <<>>
      [] req.ep = "filter" ->
             ~Truthy(req.args.column) \/ ~Truthy(req.args.value)
      [] req.ep = "by_shipper" -> ~Truthy(req.args.shipper_name)
      [] req.ep = "by_consignee" -> ~Truthy(req.args.consignee_name)
      [] req.ep = "export" ->
             \/ req.args.format \in {Absent, None}
             \/ req.args.data = Absent
             \/ Lower(req.args.format) \notin {Csv, Pdf}
      [] OTHER -> FALSE

\* C15: a search with no query or a blank one, a filter with no column or no
\* value, a by-shipper or by-consignee request with no name, and an export
\* with no format, no data or a format that is not csv or pdf are answered
\* 400 with the body {error}; no statement is executed and no file written.
C15_RequiredParameters ==
    LacksRequired =>
        /\ resp.status = 400 /\ resp.body = {"error"}
        /\ stmts = <<>> /\ files = <<>>


-----------------------------------------------------------------------------
(* Properties of the custom reports *)

\* the text holds a token taken from the sql_query of a body
Explicit(text) == \E i \in 1..Len(text) : text[i].src = "sql_query"

\* the text is one the derivation from these filters and columns gives: the
\* fallback text, or a SELECT of the joined columns (of * for no column)
\* with one placeholder for each filter
DerivedFrom(text, filters, columns) ==
    /\ ~Explicit(text)
    /\ \/ text = FallbackQuery
       \/ /\ text[2] = (IF columns = <<>> THEN Code("*")
                        ELSE Interp("columns", Join(columns)))
          /\ (Truthy(filters.shipper_name) <=>
                  \E i \in 1..Len(text) : text[i] = Code("shipper_name"))

\* the report a create or update request has written
Written ==
    IF req.ep = "create_report" THEN Len(reports) ELSE req.args.id

-----------------------------------------------------------------------------
(* Properties of the ordering and of the creation-date predicates *)

\* the statement constrains the creation date
TimeConstrained(st) ==
    \E i \in 1..Len(st.where) : st.where[i].lhs \in CreationDate

\* C23: the data statement of a listing (list, filter, search, advanced
\* search) is ordered by the normalized legacy-date expression, descending,
\* when it constrains the creation date, and by id, descending, when it
\* does not.
C23_OrderingPolicy ==
    (Listed /\ stmts # <<>>) =>
        LET st == stmts[Len(stmts)]
        IN  st.order = <<IF TimeConstrained(st) THEN Code("date_sql")
                         ELSE Code("id")>>

\* the parameter bound to the placeholder of the i-th predicate
BoundOf(st, i) ==
    st.params[Cardinality({j \in 1..i : st.where[j].rhs = Placeholder})]

\* C24: every predicate on the creation date, in every statement, compares
\* the normalized legacy-date expression (never the raw column
\* shipment_creation_date) with >= or <= against a bound of 8 digits.
C24_NormalizedDateRanges ==
    \A k \in 1..Len(stmts) :
        \A i \in 1..Len(stmts[k].where) :
            stmts[k].where[i].lhs \in CreationDate =>
                /\ stmts[k].where[i].lhs = Code("date_sql")
                /\ stmts[k].where[i].op \in {">=", "<="}
                /\ stmts[k].where[i].rhs = Placeholder
                /\ BoundOf(stmts[k], i).t = "text"
                /\ IsRangeText(BoundOf(stmts[k], i).s)

-----------------------------------------------------------------------------
(* Properties of the date tokens *)

\* the endpoints that take a date_filter
TokenEndpoints ==
    {"list", "filter", "search", "by_shipper", "by_consignee",
     "top_customers", "top_cities", "average_weight", "total"}

\* what the handler of an endpoint gives for these arguments on the table
\* and the day of the state
Served(ep, a, nd) ==
    CASE ep = "list" -> get_all_shipments(a, table, now, nd)
      [] ep = "filter" -> filter_shipments(a, table, now, nd)
      [] ep = "search" -> search_shipments(a, table, now, nd)
      [] ep = "by_shipper" -> get_shipments_by_shipper(a, table, now, nd)
      [] ep = "by_consignee" -> get_shipments_by_consignee(a, table, now, nd)
      [] ep = "top_customers" -> get_top_customers(a, table, now, nd)
      [] ep = "top_cities" -> get_top_cities(a, table, now, nd)
      [] ep = "average_weight" -> get_average_weight(a, table, now, nd)
      [] ep = "total" -> get_total_shipments(a, table, now, nd)

\* C25: a request with a date_filter hands to the database the statements
\* (text, bound range and sampling row cap) that the same request with the
\* date_filter in lower case hands to it.
C25_TokensIgnoreCase ==
    (req.ep \in TokenEndpoints /\ Truthy(req.args.date_filter)) =>
        \E nd \in EngineChoices :
            stmts = Served(req.ep,
                           [req.args EXCEPT !.date_filter = Lower(@)],
                           nd).stmts

-----------------------------------------------------------------------------
(* Properties of the WHERE clause of the advanced search *)

\* the fields of the request that take part in the search, by their place
\* in AdvFields: the value is present and not empty, a weight bound is a
\* number, cod is yes or no
Participating ==
    {i \in 1..Len(AdvFields) :
        LET v == req.args[AdvFields[i].arg]
        IN  /\ Truthy(v)
            /\ AdvFields[i].cls \in {"min", "max"} => Float(v).st # "error"
            /\ AdvFields[i].cls = "cod" => Lower(v) \in {Yes, No}}

\* the k-th of them
Participant(k) ==
    AdvFields[CHOOSE i \in Participating :
                  Cardinality({j \in Participating : j < i}) = k - 1]

\* the parameter a field binds to its placeholder
ParamOf(f) ==
    LET v == req.args[f.arg]
    IN  CASE f.cls = "int" -> PInt(IntOf(v))
          [] f.cls = "like" -> PText(Wrap(v))
          [] f.cls \in {"min", "max"} -> PNum(Float(v))
          [] OTHER -> PText(v)

\* C26: the WHERE clause of each statement of an advanced search holds one
\* fragment for each participating field, in the order of the fields, and
\* none for an absent or empty field; it has as many placeholders as the
\* statement has predicate parameters (those before the page's two), and the
\* parameter of each placeholder is the one of its fragment's field.
C26_OneFragmentPerField ==
    (req.ep = "advanced" /\ stmts # <<>>) =>
        \A s \in 1..Len(stmts) :
            LET st    == stmts[s]
                holes == {k \in 1..Len(st.where) :
                             st.where[k].rhs = Placeholder}
            IN  /\ Len(st.where) = Cardinality(Participating)
                /\ \A k \in 1..Len(st.where) :
                       st.where[k].lhs = Code(Participant(k).col)
                /\ Len(st.params) =
                       Cardinality(holes) + (IF st.paged THEN 2 ELSE 0)
                /\ \A k \in holes : BoundOf(st, k) = ParamOf(Participant(k))

\* country_code = x with shipper_name = acme and an empty field aside: two
\* fragments and their two parameters, in the order of the fields
C26_Witness ==
    /\ req.ep = "advanced" /\ resp.status = 200
    /\ req.args.country_code = <<"x">> /\ req.args.shipper_name = Acme
    /\ Len(stmts[1].where) = 2
    /\ stmts[1].params = <<PText(<<"x">>), PText(Wrap(Acme))>>
    /\ stmts[2].params =
           <<PText(<<"x">>), PText(Wrap(Acme)), PInt(20), PInt(0)>>

-----------------------------------------------------------------------------
(* Properties of the placeholders *)

\* the placeholders of the text of a statement of the custom reports
Holes(text) == {i \in 1..Len(text) : text[i] = Placeholder}

\* C27: every statement handed to the database has as many placeholders as
\* values bound to it; the statement derived from the filters of a custom
\* report has no placeholder whose value is missing.
C27_PlaceholdersMatchParams ==
    \A k \in 1..Len(stmts) :
        Cardinality(Holes(stmts[k].text)) = Len(stmts[k].params)

-----------------------------------------------------------------------------
(* Properties of a listing under concurrent writes *)

\* C28: the rows of a listing response are never more than
\* max(0, total - (page - 1) * limit), with total the total of its pagination
\* block, also when rows are inserted or deleted between its two statements.
C28_RowsWithinTotal ==
    \A t \in Readers :
        (calls[t].pc = "done" /\ calls[t].resp.kind = "listing") =>
            Len(calls[t].resp.data) <=
                Max(0, calls[t].resp.pagination.total
                           - (IntOf(calls[t].args.page) - 1)
                                 * IntOf(calls[t].args.limit))

-----------------------------------------------------------------------------
(* Properties of the runs of a custom report *)

\* the threads whose request is answered by this step
Finishing == {t \in Threads : calls[t].pc # "done" /\ calls'[t].pc = "done"}

-----------------------------------------------------------------------------
(* Properties of the scheduled reports *)

\* C30: a schedule for which a DELETE was answered is in no listing of GET
\* /api/scheduled-reports afterwards, whatever requests came between.
C30_DeletedStaysHidden ==
    req.ep = "get_schedules" =>
        \A i \in 1..Len(resp.data) : ~schedules[resp.data[i]].deleted

=============================================================================
